---- MODULE Spec2Model ----
(***************************************************************************)
(* Model of the stat-tool planner and data alignment engine.               *)
(*                                                                         *)
(* Part 1: app/services/preprocess.py, clean_stock_data: the record        *)
(* normalizer and the forward-filling, intersection-trimming alignment.    *)
(* Part 2: app/services/agent.py, the numeral and period resolver, the     *)
(* heuristic plan extractor, the assisted plan extractor and the merge of  *)
(* interpret_query. Strings are sequences of characters there.             *)
(*                                                                         *)
(* Python values are tagged records [k |-> kind, ...]:                     *)
(*   none                 None, or a key the row does not carry            *)
(*   date d               a datetime.date, d its day number                *)
(*   datetime d           a datetime.datetime falling on day d             *)
(*   isostr d             the ISO-format string of day d                   *)
(*   str s                any other string, s its text                     *)
(*   num v                an int or float of value v                       *)
(*   numstr v             the decimal string of the number v               *)
(***************************************************************************)
EXTENDS Integers, Sequences, FiniteSets, TLC

VARIABLES
    records,      \* the argument of clean_stock_data
    cleanPc,      \* "input", "done", "raised", "realigned"
    normalized,   \* the local list of (date, ticker, price) after the loop
    matrix,       \* the PriceMatrix returned
    realigned,    \* the PriceMatrix returned for the records of matrix
    reference,    \* the reference date of a period subtraction
    periodCall,   \* the subtraction called, [fn, n], or NoneVal before the call
    periodResult, \* what it returned: a date, or Raised
    clock,        \* what _today() returns
    request,      \* the text of the request: the query argument
    phrases,      \* what the user typed into query, piece by piece
    planPc,       \* "typing", "planned", "returned", "raised"
    heuristicPlan, \* the plan _keyword_plan returned
    answer,       \* what the planner model answered
    llmPlan,      \* the plan _interpret_with_llm returned, or NoneVal
    plan,         \* the plan interpret_query returned
    toolData,     \* the argument of an analytics function: a list or a PriceMatrix
    toolWindow,   \* the window argument of _simple_moving_average
    toolPc,       \* "input", "returned", "raised"
    toolResult,   \* what the analytics function returned
    form,         \* the form fields of a request: tickers, start_date, end_date
    upload,       \* the uploaded file of a request, or NoneVal
    marketData,   \* what the market-data service holds for the request
    commentary,   \* what the summary call of run_analysis comes to
    calls,        \* the collaborators called so far, in call order
    agentResult,  \* what AgentService.run_analysis returned
    response,     \* what the endpoint answered: a response or an HTTP error
    servePc,      \* "input", "returned", "raised", "failed"
    token,        \* the argument of _parse_chinese_numeral
    numeralPc,    \* "input", "returned"
    numeral       \* what _parse_chinese_numeral returned

cleanVars == <<records, cleanPc, normalized, matrix, realigned>>
monthsVars == <<reference, periodCall, periodResult>>
planVars == <<clock, request, phrases, planPc, heuristicPlan, answer, llmPlan, plan>>
toolVars == <<toolData, toolWindow, toolPc, toolResult>>
pipeVars == <<form, upload, marketData, commentary, calls, agentResult, response, servePc>>
numeralVars == <<token, numeralPc, numeral>>
vars == <<records, cleanPc, normalized, matrix, realigned,
          reference, periodCall, periodResult,
          clock, request, phrases, planPc, heuristicPlan, answer, llmPlan, plan,
          toolData, toolWindow, toolPc, toolResult,
          form, upload, marketData, commentary, calls, agentResult, response, servePc,
          token, numeralPc, numeral>>

(***************************** bounds ***************************************)
MaxRecords == 3
MaxDay == 3
MaxPrice == 2
MaxRawRecords == 2
MaxYearSpan == 1
MaxMonths == 25
MaxYears == 2
MaxPhrases == 1
MaxWords == 2
MaxRequestWords == 2
MaxSeries == 4
MaxWindow == 3
MaxDates == 3
MaxPlanTools == 3
MaxTokenLen == 3
MaxUploadRows == 2
MaxMarketDays == 1

(***************************** Python values ********************************)
NoneVal == [k |-> "none"]
DateVal(d) == [k |-> "date", d |-> d]
DateTimeVal(d) == [k |-> "datetime", d |-> d]
IsoStr(d) == [k |-> "isostr", d |-> d]
Str(s) == [k |-> "str", s |-> s]
Num(v) == [k |-> "num", v |-> v]
NumStr(v) == [k |-> "numstr", v |-> v]

\* Python truth value: None, "" and a zero number are false
Truthy(v) ==
    CASE v.k = "none" -> FALSE
      [] v.k = "str" -> v.s # ""
      [] v.k = "num" -> v.v # 0
      [] OTHER -> TRUE

\* F of the value of v, with v computed once: a local variable of the code
Let(v, F(_)) == CHOOSE r \in {F(x) : x \in {v}} : TRUE

\* `a or b`
PyOr(a, b) == IF Truthy(a) THEN a ELSE b

\* the tickers of the model, in their sort order, and str.upper on them
Symbols == <<"AAA", "BBB">>
Upper(s) ==
    CASE s = "aaa" -> "AAA"
      [] s = "bbb" -> "BBB"
      [] OTHER -> s
\* the tickers a record can carry, in their sort order
SortedSymbols == <<"AAA", "AAPL", "BBB">>
Rank(t) == CHOOSE i \in 1..Len(SortedSymbols) : SortedSymbols[i] = t

(***************************** rows *****************************************)
\* a row is a dict carrying some of the six keys (a key it lacks reads None),
\* or an object that is no dict at all
Row(D, d, T, t, C, c) ==
    [k |-> "dict", Date |-> D, date |-> d, Ticker |-> T, ticker |-> t,
     Close |-> C, close |-> c]
NotADict == [k |-> "notdict"]

Range(s) == {s[i] : i \in DOMAIN s}

\* outcome of one pass through the loop body
Triple(d, t, p) == [st |-> "ok", date |-> d, ticker |-> t, price |-> p]
Skip == [st |-> "skip"]
Raise == [st |-> "raise"]

\* lines 36-41: the date of a date value; fromisoformat raises ValueError on
\* a string that is no ISO date
ParseDate(v) ==
    CASE v.k = "datetime" -> [ok |-> TRUE, d |-> v.d]
      [] v.k = "date" -> [ok |-> TRUE, d |-> v.d]
      [] v.k = "isostr" -> [ok |-> TRUE, d |-> v.d]
      [] OTHER -> [ok |-> FALSE]

\* line 43: float(close_value); ValueError on a non-numeric string, TypeError
\* on a date
ToFloat(v) ==
    CASE v.k = "num" -> [ok |-> TRUE, v |-> v.v]
      [] v.k = "numstr" -> [ok |-> TRUE, v |-> v.v]
      [] OTHER -> [ok |-> FALSE]

\* line 42: str(ticker_value).upper(); the tickers of the model are strings
TickerOf(v) == Upper(v.s)

\* lines 31-44, the body of the try block
RowBody(row) ==
    IF row.k # "dict" THEN Raise
    ELSE LET date_value == PyOr(row.Date, row.date)
             ticker_value == PyOr(row.Ticker, row.ticker)
             close_value == PyOr(row.Close, row.close)
         IN IF date_value = NoneVal \/ ticker_value = NoneVal \/ close_value = NoneVal
            THEN Skip
            ELSE LET date == ParseDate(date_value)
                     price == ToFloat(close_value)
                 IN IF ~date.ok \/ ~price.ok THEN Raise
                    ELSE Triple(date.d, TickerOf(ticker_value), price.v)

\* mutant of TryRow: the loop body without its except clause
TryRowNoExcept(row) == RowBody(row)

\* lines 30, 45-46: try ... except Exception: continue
TryRow(row) == LET r == RowBody(row) IN IF r.st = "raise" THEN Skip ELSE r

\* lines 28-46: the loop; an exception leaving the loop body ends the call
RECURSIVE NormalizeLoop(_)
NormalizeLoop(rows) ==
    IF rows = <<>> THEN [raised |-> FALSE, normalized |-> <<>>]
    ELSE LET head == NormalizeLoop(SubSeq(rows, 1, Len(rows) - 1))
             r == TryRow(rows[Len(rows)])
         IN IF head.raised \/ r.st = "raise"
            THEN [raised |-> TRUE, normalized |-> <<>>]
            ELSE IF r.st = "skip" THEN head
            ELSE [raised |-> FALSE, normalized |-> Append(head.normalized, r)]

(***************************** alignment ************************************)
\* line 51: the sort key (date, ticker)
KeyLess(a, b) ==
    \/ a.date < b.date
    \/ a.date = b.date /\ Rank(a.ticker) < Rank(b.ticker)

\* list.sort is stable: an item goes after every item whose key is not greater
InsertStable(sorted, x) ==
    LET n == Cardinality({i \in DOMAIN sorted : ~KeyLess(x, sorted[i])})
    IN SubSeq(sorted, 1, n) \o <<x>> \o SubSeq(sorted, n + 1, Len(sorted))

RECURSIVE SortNormalized(_)
SortNormalized(s) ==
    IF s = <<>> THEN <<>>
    ELSE InsertStable(SortNormalized(SubSeq(s, 1, Len(s) - 1)), s[Len(s)])

\* line 52
TickersOf(items) == {items[i].ticker : i \in DOMAIN items}

\* mutant of DateMap: the first item of a (date, ticker) is kept (setdefault on
\* the price instead of an assignment)
DateMapFirstWins(sorted) ==
    [d \in {sorted[i].date : i \in DOMAIN sorted} |->
        [t \in {sorted[i].ticker : i \in {j \in DOMAIN sorted : sorted[j].date = d}} |->
            LET hits == {i \in DOMAIN sorted : sorted[i].date = d /\ sorted[i].ticker = t}
                first == CHOOSE i \in hits : \A j \in hits : i <= j
            IN sorted[first].price]]

\* lines 53-55: date_map[date][ticker] = price, a later item overwriting
DateMap(sorted) ==
    [d \in {sorted[i].date : i \in DOMAIN sorted} |->
        [t \in {sorted[i].ticker : i \in {j \in DOMAIN sorted : sorted[j].date = d}} |->
            LET hits == {i \in DOMAIN sorted : sorted[i].date = d /\ sorted[i].ticker = t}
                last == CHOOSE i \in hits : \A j \in hits : j <= i
            IN sorted[last].price]]

\* line 57
RECURSIVE SortedSeq(_)
SortedSeq(S) ==
    IF S = {} THEN <<>>
    ELSE LET m == CHOOSE x \in S : \A y \in S : x <= y
         IN <<m>> \o SortedSeq(S \ {m})

\* lines 59-65: latest_values[ticker] after the pass over sorted_dates[1..idx]
RECURSIVE LatestValue(_, _, _, _)
LatestValue(date_map, sorted_dates, ticker, idx) ==
    IF idx = 0 THEN NoneVal
    ELSE IF ticker \in DOMAIN date_map[sorted_dates[idx]]
         THEN Num(date_map[sorted_dates[idx]][ticker])
         ELSE LatestValue(date_map, sorted_dates, ticker, idx - 1)

\* mutant of FilledSeries: a value only on the dates it was observed on, none
\* carried forward
FilledSeriesNoCarry(date_map, sorted_dates, tickers) ==
    [t \in tickers |->
        [idx \in 1..Len(sorted_dates) |->
            IF t \in DOMAIN date_map[sorted_dates[idx]]
            THEN Num(date_map[sorted_dates[idx]][t]) ELSE NoneVal]]

\* lines 58-65
FilledSeries(date_map, sorted_dates, tickers) ==
    [t \in tickers |->
        [idx \in 1..Len(sorted_dates) |-> LatestValue(date_map, sorted_dates, t, idx)]]

\* mutant of ValidIndices: any() in place of all()
ValidIndicesAny(filled_series, sorted_dates, tickers) ==
    SortedSeq({idx \in 1..Len(sorted_dates) :
                  \E t \in tickers : filled_series[t][idx] # NoneVal})

\* lines 67-70
ValidIndices(filled_series, sorted_dates, tickers) ==
    SortedSeq({idx \in 1..Len(sorted_dates) :
                  \A t \in tickers : filled_series[t][idx] # NoneVal})

EmptyMatrix == [dates |-> <<>>, series |-> [t \in {} |-> <<>>]]

\* lines 48-77
Align(items) ==
    IF items = <<>> THEN EmptyMatrix
    ELSE LET sorted == SortNormalized(items)
             tickers == TickersOf(sorted)
             date_map == DateMap(sorted)
             sorted_dates == SortedSeq(DOMAIN date_map)
             filled_series == FilledSeries(date_map, sorted_dates, tickers)
             valid_indices == ValidIndices(filled_series, sorted_dates, tickers)
         IN [dates |-> [i \in 1..Len(valid_indices) |-> sorted_dates[valid_indices[i]]],
             series |-> [t \in tickers |->
                            [i \in 1..Len(valid_indices) |->
                                filled_series[t][valid_indices[i]]]]]

\* clean_stock_data
CleanStockData(rows) ==
    LET loop == NormalizeLoop(rows)
    IN IF loop.raised THEN [raised |-> TRUE, normalized |-> <<>>, matrix |-> EmptyMatrix]
       ELSE [raised |-> FALSE, normalized |-> loop.normalized,
             matrix |-> Align(loop.normalized)]

\* the records of a matrix: one per retained date and symbol, carrying the cell
MatrixRecords(m) ==
    LET tickers == SelectSeq(Symbols, LAMBDA s : s \in DOMAIN m.series)
        n == Len(m.dates)
        w == Len(tickers)
    IN [j \in 1..(n * w) |->
           LET i == ((j - 1) \div w) + 1
               t == tickers[((j - 1) % w) + 1]
           IN Row(DateVal(m.dates[i]), NoneVal, Str(t), NoneVal, m.series[t][i], NoneVal)]

(***************************** strings **************************************)
\* A string is a sequence of characters. An ASCII character is itself; a CJK
\* character is written "#" and its pinyin: "#guo" "#qu" is the word for
\* "past", "#san" the numeral three, "#shi" ten, "#nian" year, "#ge" "#yue"
\* and "#yue" month, "#zhou" and "#xing" "#qi" week, "#tian" and "#ri" day.
Uppers == <<"A", "B", "C", "D", "E", "F", "G", "H", "I", "J", "K", "L", "M", "N", "O", "P", "Q", "R", "S", "T", "U", "V", "W", "X", "Y", "Z">>
Lowers == <<"a", "b", "c", "d", "e", "f", "g", "h", "i", "j", "k", "l", "m", "n", "o", "p", "q", "r", "s", "t", "u", "v", "w", "x", "y", "z">>
Digits == <<"0", "1", "2", "3", "4", "5", "6", "7", "8", "9">>
CJK == {"#guo", "#qu", "#ling", "#yi", "#er", "#liang", "#san", "#si", "#wu",
        "#liu", "#qi7", "#ba", "#jiu", "#shi", "#bai", "#ban", "#ge", "#yue",
        "#nian", "#zhou", "#xing", "#qi", "#tian", "#ri", "#de", "#xian",
        "#ping", "#guo3", "#te", "#si1", "#la", "#wei", "#ruan"}

IsUpper(c) == \E i \in 1..26 : Uppers[i] = c
IsLower(c) == \E i \in 1..26 : Lowers[i] = c
IsDigit(c) == \E i \in 1..10 : Digits[i] = c
IsSpace(c) == c = " "
\* \w of a str pattern: letters of any script, digits and the underscore
IsWordChar(c) == IsUpper(c) \/ IsLower(c) \/ IsDigit(c) \/ c = "_" \/ c \in CJK
DigitVal(c) == (CHOOSE i \in 1..10 : Digits[i] = c) - 1

LowerChar(c) == IF IsUpper(c) THEN Lowers[CHOOSE i \in 1..26 : Uppers[i] = c] ELSE c
UpperChar(c) == IF IsLower(c) THEN Uppers[CHOOSE i \in 1..26 : Lowers[i] = c] ELSE c
\* str.lower, str.upper
LowerStr(s) == [i \in 1..Len(s) |-> LowerChar(s[i])]
UpperStr(s) == [i \in 1..Len(s) |-> UpperChar(s[i])]

\* s[i:].startswith(lit)
MatchAt(s, i, lit) ==
    /\ i >= 1
    /\ i + Len(lit) - 1 <= Len(s)
    /\ \A n \in 1..Len(lit) : s[i + n - 1] = lit[n]
\* lit in s
Contains(s, lit) == \E i \in 1..(Len(s) + 1) : MatchAt(s, i, lit)
StartsWith(s, lit) == MatchAt(s, 1, lit)
EndsWith(s, lit) == MatchAt(s, Len(s) - Len(lit) + 1, lit)

\* the length of the longest run of characters satisfying P that starts at i
Span(s, i, P(_)) ==
    IF i > Len(s) THEN 0
    ELSE CHOOSE n \in 0..(Len(s) + 1 - i) :
             /\ \A m \in 0..(n - 1) : P(s[i + m])
             /\ i + n > Len(s) \/ ~P(s[i + n])

\* str.strip
Strip(s) ==
    LET lead == Span(s, 1, IsSpace)
        kept == {i \in 1..Len(s) : ~IsSpace(s[i])}
        last == IF kept = {} THEN 0 ELSE CHOOSE i \in kept : \A j \in kept : j <= i
    IN IF kept = {} THEN <<>> ELSE SubSeq(s, lead + 1, last)

\* str.isdigit and int() of a digit string
IsDigitStr(s) == s # <<>> /\ \A i \in 1..Len(s) : IsDigit(s[i])
RECURSIVE ParseInt(_)
ParseInt(s) ==
    IF s = <<>> THEN 0
    ELSE 10 * ParseInt(SubSeq(s, 1, Len(s) - 1)) + DigitVal(s[Len(s)])

(***************************** numerals *************************************)
\* _ENGLISH_NUMBER_MAP, lines 23-36
EnglishNumbers == 
    <<<<"o", "n", "e">>,
      <<"t", "w", "o">>,
      <<"t", "h", "r", "e", "e">>,
      <<"f", "o", "u", "r">>,
      <<"f", "i", "v", "e">>,
      <<"s", "i", "x">>,
      <<"s", "e", "v", "e", "n">>,
      <<"e", "i", "g", "h", "t">>,
      <<"n", "i", "n", "e">>,
      <<"t", "e", "n">>,
      <<"e", "l", "e", "v", "e", "n">>,
      <<"t", "w", "e", "l", "v", "e">>>>
InEnglishNumberMap(s) == \E i \in 1..Len(EnglishNumbers) : EnglishNumbers[i] = s
EnglishNumber(s) == CHOOSE i \in 1..Len(EnglishNumbers) : EnglishNumbers[i] = s

\* _CHINESE_DIGIT_MAP, lines 38-52
ChineseDigitMap ==
    [c \in {"#ling", "#ling0", "#yi", "#er", "#liang", "#san", "#si", "#wu",
            "#liu", "#qi7", "#ba", "#jiu", "#shi"} |->
        CASE c \in {"#ling", "#ling0"} -> 0
          [] c = "#yi" -> 1
          [] c \in {"#er", "#liang"} -> 2
          [] c = "#san" -> 3
          [] c = "#si" -> 4
          [] c = "#wu" -> 5
          [] c = "#liu" -> 6
          [] c = "#qi7" -> 7
          [] c = "#ba" -> 8
          [] c = "#jiu" -> 9
          [] c = "#shi" -> 10]

\* _CHINESE_DIGIT_MAP.get(key) for a string key: only one character can hit
ChineseDigitGet(key) ==
    IF Len(key) = 1 /\ key[1] \in DOMAIN ChineseDigitMap
    THEN Num(ChineseDigitMap[key[1]]) ELSE NoneVal

\* lines 158-164: positional composition of the digit characters
RECURSIVE ChinesePositional(_)
ChinesePositional(text) ==
    IF text = <<>> THEN Num(0)
    ELSE LET head == ChinesePositional(SubSeq(text, 1, Len(text) - 1))
             digit == ChineseDigitGet(<<text[Len(text)]>>)
         IN IF head = NoneVal \/ digit = NoneVal THEN NoneVal
            ELSE Num(head.v * 10 + digit.v)

\* mutant of ParseChineseNumeral: a token that begins with the ten counts no
\* ten for it
ParseChineseNumeralNoLeadingTen(text) ==
    IF text = <<>> THEN NoneVal
    ELSE IF text = <<"#shi">> THEN Num(10)
    ELSE IF text[Len(text)] = "#shi" /\ Len(text) = 2
    THEN LET leading == ChineseDigitGet(<<text[1]>>)
         IN IF leading = NoneVal THEN NoneVal ELSE Num(leading.v * 10)
    ELSE IF \E i \in 1..Len(text) : text[i] = "#shi"
    THEN LET at == CHOOSE i \in 1..Len(text) :
                       text[i] = "#shi" /\ \A j \in 1..(i - 1) : text[j] # "#shi"
             prefix == SubSeq(text, 1, at - 1)
             suffix == SubSeq(text, at + 1, Len(text))
             prefix_value == IF prefix = <<>> THEN Num(0) ELSE ChineseDigitGet(prefix)
             suffix_value == IF suffix = <<>> THEN Num(0) ELSE ChineseDigitGet(suffix)
         IN IF prefix_value = NoneVal \/ suffix_value = NoneVal THEN NoneVal
            ELSE Num(prefix_value.v * 10 + suffix_value.v)
    ELSE ChinesePositional(text)

\* _parse_chinese_numeral, lines 141-164
ParseChineseNumeral(text) ==
    IF text = <<>> THEN NoneVal
    ELSE IF text = <<"#shi">> THEN Num(10)
    ELSE IF text[Len(text)] = "#shi" /\ Len(text) = 2
    THEN LET leading == ChineseDigitGet(<<text[1]>>)
         IN IF leading = NoneVal THEN NoneVal ELSE Num(leading.v * 10)
    ELSE IF \E i \in 1..Len(text) : text[i] = "#shi"
    THEN LET at == CHOOSE i \in 1..Len(text) :
                       text[i] = "#shi" /\ \A j \in 1..(i - 1) : text[j] # "#shi"
             prefix == SubSeq(text, 1, at - 1)
             suffix == SubSeq(text, at + 1, Len(text))
             prefix_value == IF prefix = <<>> THEN Num(1) ELSE ChineseDigitGet(prefix)
             suffix_value == IF suffix = <<>> THEN Num(0) ELSE ChineseDigitGet(suffix)
         IN IF prefix_value = NoneVal \/ suffix_value = NoneVal THEN NoneVal
            ELSE Num(prefix_value.v * 10 + suffix_value.v)
    ELSE ChinesePositional(text)

\* _parse_numeric_token, lines 166-179
ParseNumericToken(text) ==
    LET cleaned == LowerStr(Strip(text))
    IN IF cleaned = <<>> THEN NoneVal
       ELSE IF IsDigitStr(cleaned) THEN Num(ParseInt(cleaned))
       ELSE IF InEnglishNumberMap(cleaned) THEN Num(EnglishNumber(cleaned))
       ELSE IF cleaned \in {<<"h", "a", "l", "f">>, <<"h", "a", "l", "f", "-", "y", "e", "a", "r">>, <<"h", "a", "l", "f", " ", "y", "e", "a", "r">>}
       THEN Num(6)
       ELSE ParseChineseNumeral(Strip(text))

(***************************** calendar *************************************)
\* Part 2: app/services/agent.py, the numeral and period resolver.
\* A calendar date is [k |-> "date", y, m, d]; Part 1 needs only the order of
\* its dates and keeps the day number alone.
YMD(y, m, d) == [k |-> "date", y |-> y, m |-> m, d |-> d]

\* datetime.MINYEAR and the largest days= a timedelta takes
MinYear == 1
MaxDeltaDays == 999999999

IsLeap(y) == y % 4 = 0 /\ (y % 100 # 0 \/ y % 400 = 0)

\* calendar.monthrange(year, month)[1]
DaysInMonth(y, m) ==
    IF m = 2 THEN (IF IsLeap(y) THEN 29 ELSE 28)
    ELSE IF m \in {4, 6, 9, 11} THEN 30 ELSE 31

RECURSIVE DaysBeforeMonth(_, _)
DaysBeforeMonth(y, m) ==
    IF m = 1 THEN 0 ELSE DaysBeforeMonth(y, m - 1) + DaysInMonth(y, m - 1)

DaysBeforeYear(y) ==
    (y - 1) * 365 + ((y - 1) \div 4) - ((y - 1) \div 100) + ((y - 1) \div 400)

\* date.toordinal and date.fromordinal
ToOrdinal(date) == DaysBeforeYear(date.y) + DaysBeforeMonth(date.y, date.m) + date.d
FromOrdinal(o) ==
    LET y == CHOOSE c \in (((o - 1) \div 366) + 1)..(((o - 1) \div 365) + 1) :
                 DaysBeforeYear(c) < o /\ o <= DaysBeforeYear(c + 1)
        rest == o - DaysBeforeYear(y)
        m == CHOOSE c \in 1..12 :
                 DaysBeforeMonth(y, c) < rest
                 /\ rest <= DaysBeforeMonth(y, c) + DaysInMonth(y, c)
    IN YMD(y, m, rest - DaysBeforeMonth(y, m))

DateLess(a, b) ==
    \/ a.y < b.y
    \/ a.y = b.y /\ a.m < b.m
    \/ a.y = b.y /\ a.m = b.m /\ a.d < b.d

\* an exception leaving a call of the planner
Raised == [k |-> "raise"]

\* dt.date(year, month, day): ValueError outside the calendar
MakeDate(y, m, d) ==
    IF y < MinYear \/ m \notin 1..12 \/ d \notin 1..DaysInMonth(y, m) THEN Raised
    ELSE YMD(y, m, d)

\* end_date - dt.timedelta(days=n): OverflowError when the timedelta or the
\* resulting date is out of range
MinusDays(date, n) ==
    IF n > MaxDeltaDays \/ ToOrdinal(date) - n < 1 THEN Raised
    ELSE FromOrdinal(ToOrdinal(date) - n)

\* mutant of MonthsAgo: the day of the reference kept as it is, without the clamp
MonthsAgoNoClamp(ref, months) ==
    LET month0 == ref.m - months
        turns == IF month0 <= 0 THEN ((0 - month0) \div 12) + 1 ELSE 0
    IN MakeDate(ref.y - turns, month0 + 12 * turns, ref.d)

\* _months_ago, lines 90-97. The while loop of lines 93-95 adds 12 to month and
\* takes 1 from year until month > 0: `turns` is the number of its passes.
MonthsAgo(ref, months) ==
    LET month0 == ref.m - months
        turns == IF month0 <= 0 THEN ((0 - month0) \div 12) + 1 ELSE 0
        year == ref.y - turns
        month == month0 + 12 * turns
        last == DaysInMonth(year, month)
        day == IF ref.d < last THEN ref.d ELSE last
    IN MakeDate(year, month, day)

\* _subtract_period, lines 181-201
SubtractPeriod(end_date, quantity, unit) ==
    LET normal == LowerStr(unit)
    IN IF quantity <= 0 THEN NoneVal
       ELSE IF StartsWith(normal, <<"d", "a", "y">>) THEN MinusDays(end_date, quantity)
       ELSE IF StartsWith(normal, <<"w", "e", "e", "k">>) THEN MinusDays(end_date, 7 * quantity)
       ELSE IF StartsWith(normal, <<"m", "o", "n", "t", "h">>) THEN MonthsAgo(end_date, quantity)
       ELSE IF StartsWith(normal, <<"y", "e", "a", "r">>) THEN MonthsAgo(end_date, quantity * 12)
       ELSE IF normal \in {<<"m">>, <<"m", "o">>, <<"m", "o", "s">>} THEN MonthsAgo(end_date, quantity)
       ELSE IF normal \in {<<"y">>, <<"y", "r">>, <<"y", "r", "s">>} THEN MonthsAgo(end_date, quantity * 12)
       ELSE IF normal \in {<<"w">>, <<"w", "k">>, <<"w", "k", "s">>} THEN MinusDays(end_date, 7 * quantity)
       ELSE IF normal \in {<<"d">>} THEN MinusDays(end_date, quantity)
       ELSE NoneVal

(***************************** relative periods *****************************)
NoMatch == [ok |-> FALSE]

\* the first of the alternatives alts (a sequence of strings) found at s[i:]
FirstAltAt(s, i, alts) ==
    LET hits == {a \in 1..Len(alts) : MatchAt(s, i, alts[a])}
    IN IF hits = {} THEN <<>> ELSE alts[CHOOSE a \in hits : \A b \in hits : a <= b]

EnglishKeywords == <<<<"p", "a", "s", "t">>, <<"l", "a", "s", "t">>, <<"t", "r", "a", "i", "l", "i", "n", "g">>>>
EnglishUnits ==
    <<<<"d", "a", "y">>,
      <<"d", "a", "y", "s">>,
      <<"w", "e", "e", "k">>,
      <<"w", "e", "e", "k", "s">>,
      <<"m", "o", "n", "t", "h">>,
      <<"m", "o", "n", "t", "h", "s">>,
      <<"y", "e", "a", "r">>,
      <<"y", "e", "a", "r", "s">>>>

\* line 228 at position i:
\* (?:past|last|trailing)\s+(\d+|one|...|twelve)\s+(day|days|...|years)
\* \s+ takes the whole run of spaces (a quantity and a unit start with none),
\* \d+ the whole run of digits (a space must follow it)
EnglishAt(s, i) ==
    LET kw == FirstAltAt(s, i, EnglishKeywords)
        q == i + Len(kw) + Span(s, i + Len(kw), IsSpace)
        digits == Span(s, q, IsDigit)
        word == FirstAltAt(s, q, EnglishNumbers)
        qlen == IF digits > 0 THEN digits ELSE Len(word)
        u == q + qlen + Span(s, q + qlen, IsSpace)
        unit == FirstAltAt(s, u, EnglishUnits)
    IN IF kw = <<>> \/ q = i + Len(kw) \/ qlen = 0 \/ u = q + qlen \/ unit = <<>>
       THEN NoMatch
       ELSE [ok |-> TRUE, quantity |-> SubSeq(s, q, q + qlen - 1), unit |-> unit]

CompactUnits ==
    <<<<"y">>, <<"y", "r">>, <<"y", "r", "s">>, <<"m">>, <<"m", "o">>, <<"m", "o", "s">>, <<"w">>, <<"w", "k">>, <<"w", "k", "s">>, <<"d">>>>

\* line 239 at position i: (\d+)(y|yr|yrs|m|mo|mos|w|wk|wks|d); the leftmost
\* match starts a run of digits and \d+ takes all of it
CompactAt(s, i) ==
    LET digits == Span(s, i, IsDigit)
        unit == FirstAltAt(s, i + digits, CompactUnits)
    IN IF digits = 0 \/ unit = <<>> THEN NoMatch
       ELSE [ok |-> TRUE, quantity |-> SubSeq(s, i, i + digits - 1), unit |-> unit]

ChineseUnits ==
    <<<<"#nian">>, <<"#ge", "#yue">>, <<"#yue">>, <<"#zhou">>, <<"#xing", "#qi">>, <<"#tian">>, <<"#ri">>>>
IsChineseQuantityChar(c) == c \in CJK \/ IsDigit(c)

\* line 248 at position i: "#guo" "#qu" ([CJK or digit]+)(unit); the
\* quantity is greedy: the longest run a unit follows
ChineseAt(s, i) ==
    LET run == Span(s, i + 2, IsChineseQuantityChar)
        fits == {n \in 1..run : FirstAltAt(s, i + 2 + n, ChineseUnits) # <<>>}
        qlen == CHOOSE n \in fits : \A m \in fits : m <= n
    IN IF ~MatchAt(s, i, <<"#guo", "#qu">>) \/ fits = {} THEN NoMatch
       ELSE [ok |-> TRUE, quantity |-> SubSeq(s, i + 2, i + 1 + qlen),
             unit |-> FirstAltAt(s, i + 2 + qlen, ChineseUnits)]

\* re.search: the match at the leftmost position that has one
Search(s, At(_, _)) ==
    LET hits == {i \in 1..Len(s) : At(s, i).ok}
    IN IF hits = {} THEN NoMatch ELSE At(s, CHOOSE i \in hits : \A j \in hits : i <= j)

\* unit_map, lines 252-260
ChineseUnitMap(unit) ==
    CASE unit = <<"#nian">> -> <<"y", "e", "a", "r">>
      [] unit \in {<<"#ge", "#yue">>, <<"#yue">>} -> <<"m", "o", "n", "t", "h">>
      [] unit \in {<<"#zhou">>, <<"#xing", "#qi">>} -> <<"w", "e", "e", "k">>
      [] unit \in {<<"#tian">>, <<"#ri">>} -> <<"d", "a", "y">>
      [] OTHER -> unit

NoPeriod == [raised |-> FALSE, start |-> NoneVal, end |-> NoneVal]

\* one matcher of _extract_relative_period: `if quantity and unit:` then
\* `start = _subtract_period(...)`, `if start: return start, today`.
\* [raised, done, start, end]: done says the function returned here.
NotDone == [raised |-> FALSE, done |-> FALSE]
TryWindow(today, quantity, unit) ==
    IF quantity = NoneVal \/ quantity.v = 0 \/ unit = <<>> THEN NotDone
    ELSE Let(SubtractPeriod(today, quantity.v, unit), LAMBDA start :
             IF start = Raised THEN [raised |-> TRUE, done |-> TRUE]
             ELSE IF start = NoneVal THEN NotDone
             ELSE [raised |-> FALSE, done |-> TRUE, start |-> start, end |-> today])

\* a matcher on its regex match: the quantity parsed, the unit as matched
\* (English, compact) or through unit_map (Chinese)
MatchWindow(today, match, UnitOf(_)) ==
    IF ~match.ok THEN NotDone
    ELSE Let(ParseNumericToken(match.quantity), LAMBDA quantity :
             TryWindow(today, quantity, UnitOf(match.unit)))

Returned2(w) ==
    IF w.raised THEN [raised |-> TRUE, start |-> NoneVal, end |-> NoneVal]
    ELSE [raised |-> FALSE, start |-> w.start, end |-> w.end]

\* _extract_relative_period, lines 224-277, on the lower-cased query: the
\* matchers in their order, the first that returns decides
ExtractRelativePeriodOf(query, lowered, today) ==
    Let(Let(Search(lowered, EnglishAt), LAMBDA english_match :
                MatchWindow(today, english_match, LAMBDA unit : unit)),
        LAMBDA english :
    IF english.done THEN Returned2(english)
    ELSE Let(Let(Search(lowered, CompactAt), LAMBDA simple_match :
                     MatchWindow(today, simple_match, LAMBDA unit : unit)),
             LAMBDA simple :
    IF simple.done THEN Returned2(simple)
    ELSE Let(Let(Search(query, ChineseAt), LAMBDA chinese_match :
                     MatchWindow(today, chinese_match, ChineseUnitMap)),
             LAMBDA chinese :
    IF chinese.done THEN Returned2(chinese)
    ELSE Let(IF Contains(query, <<"#guo", "#qu", "#ban", "#nian">>)
             THEN TryWindow(today, Num(6), <<"m", "o", "n", "t", "h">>)
             ELSE NotDone,
             LAMBDA half :
    IF half.done THEN Returned2(half)
    ELSE Let(IF \/ Contains(query, <<"#guo", "#qu", "#yi", "#nian">>)
                \/ Contains(lowered, <<"l", "a", "s", "t", " ", "y", "e", "a", "r">>)
                \/ Contains(lowered, <<"p", "a", "s", "t", " ", "y", "e", "a", "r">>)
             THEN TryWindow(today, Num(1), <<"y", "e", "a", "r">>)
             ELSE NotDone,
             LAMBDA year :
    IF year.done THEN Returned2(year) ELSE NoPeriod)))))

ExtractRelativePeriod(query, today) ==
    Let(LowerStr(query), LAMBDA lowered : ExtractRelativePeriodOf(query, lowered, today))

(***************************** heuristic plan *******************************)
\* the registry of __init__, lines 59-63, in its insertion order
ToolMap == <<<<"z", "s", "c", "o", "r", "e">>, <<"r", "s", "i">>, <<"s", "m", "a">>>>
\* _keyword_ticker_map, lines 65-72, in its insertion order
KeywordTickerMap ==
    <<[keyword |-> <<"a", "p", "p", "l", "e">>, symbol |-> <<"A", "A", "P", "L">>],
      [keyword |-> <<"#ping", "#guo3">>, symbol |-> <<"A", "A", "P", "L">>],
      [keyword |-> <<"t", "e", "s", "l", "a">>, symbol |-> <<"T", "S", "L", "A">>],
      [keyword |-> <<"#te", "#si1", "#la">>, symbol |-> <<"T", "S", "L", "A">>],
      [keyword |-> <<"m", "i", "c", "r", "o", "s", "o", "f", "t">>, symbol |-> <<"M", "S", "F", "T">>],
      [keyword |-> <<"#wei", "#ruan">>, symbol |-> <<"M", "S", "F", "T">>]>>

InSeq(x, s) == \E i \in 1..Len(s) : s[i] = x

\* mutant of Dedupe: the list as it is, repeats kept
DedupeKeepAll(s) == s
\* list(dict.fromkeys(s)): the first occurrence of each entry, in order
RECURSIVE Dedupe(_)
Dedupe(s) ==
    IF s = <<>> THEN <<>>
    ELSE Let(Dedupe(SubSeq(s, 1, Len(s) - 1)), LAMBDA front :
             IF InSeq(s[Len(s)], front) THEN front ELSE Append(front, s[Len(s)]))

\* re.findall(r"\b([A-Z]{1,5})\b", query), line 280: the runs of one to five
\* capitals with no word character on either side, left to right
UppercaseWords(query) ==
    LET runAt(i) == Span(query, i, IsUpper)
        starts == {i \in 1..Len(query) :
                      /\ IsUpper(query[i])
                      /\ i = 1 \/ ~IsWordChar(query[i - 1])
                      /\ runAt(i) <= 5
                      /\ i + runAt(i) > Len(query) \/ ~IsWordChar(query[i + runAt(i)])}
        nth(k) == CHOOSE i \in starts : Cardinality({j \in starts : j < i}) = k - 1
    IN [k \in 1..Cardinality(starts) |-> SubSeq(query, nth(k), nth(k) + runAt(nth(k)) - 1)]

\* mutant of ExtractTickers: the capitals that spell a tool name are kept
ExtractTickersToolNamesToo(query) ==
    LET words == UppercaseWords(query)
        lowered == LowerStr(query)
        hits == SelectSeq(KeywordTickerMap, LAMBDA e : Contains(lowered, e.keyword))
    IN Dedupe([k \in 1..Len(words) |-> UpperStr(words[k])]
              \o [k \in 1..Len(hits) |-> hits[k].symbol])

\* _extract_tickers, lines 279-290
ExtractTickers(query) ==
    LET words == SelectSeq(UppercaseWords(query), LAMBDA w : ~InSeq(LowerStr(w), ToolMap))
        lowered == LowerStr(query)
        hits == SelectSeq(KeywordTickerMap, LAMBDA e : Contains(lowered, e.keyword))
    IN Dedupe([k \in 1..Len(words) |-> UpperStr(words[k])]
              \o [k \in 1..Len(hits) |-> hits[k].symbol])

\* mutant of KeywordTools: the aliases are matched beside the names, not only
\* when no name occurs
KeywordToolsAliasesToo(query) ==
    LET lowered == LowerStr(query)
        named == SelectSeq(ToolMap, LAMBDA name : Contains(lowered, name))
        zscore == IF \/ Contains(lowered, <<"z", "-", "s", "c", "o", "r", "e">>)
                     \/ Contains(lowered, <<"z", " ", "s", "c", "o", "r", "e">>)
                  THEN <<<<"z", "s", "c", "o", "r", "e">>>> ELSE <<>>
    IN IF named \o zscore # <<>> THEN named \o zscore ELSE ToolMap

\* the tool selection of _keyword_plan, lines 293-305
KeywordTools(query) ==
    LET lowered == LowerStr(query)
        named == SelectSeq(ToolMap, LAMBDA name : Contains(lowered, name))
        sma == IF Contains(lowered, <<"m", "o", "v", "i", "n", "g", " ", "a", "v", "e", "r", "a", "g", "e">>) \/ Contains(lowered, <<"s", "m", "a">>)
               THEN <<<<"s", "m", "a">>>> ELSE <<>>
        rsi == IF Contains(lowered, <<"r", "e", "l", "a", "t", "i", "v", "e", " ", "s", "t", "r", "e", "n", "g", "t", "h">>) \/ Contains(lowered, <<"r", "s", "i">>)
               THEN <<<<"r", "s", "i">>>> ELSE <<>>
        zscore == IF \/ Contains(lowered, <<"z", "-", "s", "c", "o", "r", "e">>)
                     \/ Contains(lowered, <<"z", " ", "s", "c", "o", "r", "e">>)
                     \/ Contains(lowered, <<"z", "s", "c", "o", "r", "e">>)
                  THEN <<<<"z", "s", "c", "o", "r", "e">>>> ELSE <<>>
        aliased == IF named # <<>> THEN named ELSE sma \o rsi \o zscore
    IN IF aliased # <<>> THEN aliased ELSE ToolMap

\* QueryPlan, models.py lines 38-45
QueryPlan(tools, tickers, start_date, end_date) ==
    [k |-> "plan", tools |-> tools, tickers |-> tickers,
     start_date |-> start_date, end_date |-> end_date]

\* _keyword_plan, lines 292-309: the plan, or Raised when the period
\* arithmetic of _extract_relative_period raises
KeywordPlan(query, today) ==
    Let(ExtractRelativePeriod(query, today), LAMBDA period :
        IF period.raised THEN Raised
        ELSE QueryPlan(Dedupe(KeywordTools(query)), ExtractTickers(query),
                       period.start, period.end))

(***************************** assisted plan ********************************)
\* What json.loads gives: None, a str (Str of a character sequence), an int
\* (Num), a list, a dict. The planner's reply is the dict Payload, whose absent
\* and null members are both NoneVal (payload.get); a lookback object is the
\* dict Lookback, whose absent members are Missing.
List(items) == [k |-> "list", items |-> items]
Missing == [k |-> "missing"]
Lookback(quantity, unit) == [k |-> "dict", quantity |-> quantity, unit |-> unit]
Payload(tools, tickers, start_date, end_date, lookback) ==
    [k |-> "payload", tools |-> tools, tickers |-> tickers,
     start_date |-> start_date, end_date |-> end_date, lookback |-> lookback]

\* the truth value of a JSON value
JsonTruthy(v) ==
    CASE v.k = "none" -> FALSE
      [] v.k = "str" -> v.s # <<>>
      [] v.k = "num" -> v.v # 0
      [] v.k = "list" -> v.items # <<>>
      [] v.k = "dict" -> v.quantity # Missing \/ v.unit # Missing
      [] OTHER -> TRUE

\* str() of an int
RECURSIVE IntStr(_)
IntStr(n) ==
    IF n < 0 THEN <<"-">> \o IntStr(0 - n)
    ELSE IF n < 10 THEN <<Digits[n + 1]>>
    ELSE Append(IntStr(n \div 10), Digits[(n % 10) + 1])

\* str() of None, a str or an int
PyStr(v) ==
    CASE v.k = "none" -> <<"N", "o", "n", "e">>
      [] v.k = "str" -> v.s
      [] v.k = "num" -> IntStr(v.v)

\* date.fromisoformat of YYYY-MM-DD or YYYYMMDD text: the date, or NoneVal
\* where it raises ValueError
FromIsoFormat(s) ==
    LET plain == IF Len(s) = 10 /\ s[5] = "-" /\ s[8] = "-"
                 THEN SubSeq(s, 1, 4) \o SubSeq(s, 6, 7) \o SubSeq(s, 9, 10)
                 ELSE IF Len(s) = 8 THEN s ELSE <<>>
        y == ParseInt(SubSeq(plain, 1, 4))
        m == ParseInt(SubSeq(plain, 5, 6))
        d == ParseInt(SubSeq(plain, 7, 8))
    IN IF ~IsDigitStr(plain) THEN NoneVal
       ELSE IF y < MinYear \/ m < 1 \/ m > 12 THEN NoneVal
       ELSE IF d < 1 \/ d > DaysInMonth(y, m) THEN NoneVal
       ELSE YMD(y, m, d)

\* _parse_date, lines 124-132, of a JSON value
ParseDateValue(value) ==
    IF value.k = "str" THEN FromIsoFormat(Strip(value.s)) ELSE NoneVal

\* _ensure_sequence, lines 134-139
EnsureSequence(value) ==
    IF value.k = "list" THEN value.items
    ELSE IF value = NoneVal THEN <<>>
    ELSE <<value>>

LookbackUnits ==
    <<<<"y", "e", "a", "r", "s">>,
      <<"y", "e", "a", "r">>,
      <<"y", "r", "s">>,
      <<"y", "r">>,
      <<"y">>,
      <<"m", "o", "n", "t", "h", "s">>,
      <<"m", "o", "n", "t", "h">>,
      <<"m", "o", "s">>,
      <<"m", "o">>,
      <<"m">>,
      <<"w", "e", "e", "k", "s">>,
      <<"w", "e", "e", "k">>,
      <<"w", "k", "s">>,
      <<"w", "k">>,
      <<"w">>,
      <<"d", "a", "y", "s">>,
      <<"d", "a", "y">>,
      <<"d">>>>
IsLookbackLetter(c) == IsUpper(c) \/ IsLower(c) \/ c \in CJK

\* lines 211-214 at position i: (\d+|[A-Za-z CJK]+)\s*(years?|yrs?|y|...|d);
\* \d+ takes the whole run of digits, the letters are greedy: the longest run a
\* unit follows
LookbackAt(s, i) ==
    LET digits == Span(s, i, IsDigit)
        letters == Span(s, i, IsLookbackLetter)
        unitAfter(n) == FirstAltAt(s, i + n + Span(s, i + n, IsSpace), LookbackUnits)
        fits == {n \in 1..letters : unitAfter(n) # <<>>}
        qlen == IF digits > 0 THEN digits ELSE CHOOSE n \in fits : \A m \in fits : m <= n
    IN IF (digits > 0 /\ unitAfter(digits) = <<>>) \/ (digits = 0 /\ fits = {})
       THEN NoMatch
       ELSE [ok |-> TRUE, quantity |-> SubSeq(s, i, i + qlen - 1), unit |-> unitAfter(qlen)]

\* _interpret_relative_window, lines 203-222: [raised, start, end]
RelativeWindowOf(quantity, unit, default_end, end_date) ==
    IF quantity = NoneVal \/ quantity.v = 0 \/ unit = <<>>
    THEN [raised |-> FALSE, start |-> NoneVal, end |-> default_end]
    ELSE Let(SubtractPeriod(end_date, quantity.v, unit), LAMBDA start_date :
             IF start_date = Raised
             THEN [raised |-> TRUE, start |-> NoneVal, end |-> NoneVal]
             ELSE IF start_date = NoneVal
             THEN [raised |-> FALSE, start |-> NoneVal, end |-> default_end]
             ELSE [raised |-> FALSE, start |-> start_date, end |-> end_date])

InterpretRelativeWindow(value, default_end, today) ==
    Let(IF value.k = "str" THEN Search(LowerStr(value.s), LookbackAt) ELSE NoMatch,
        LAMBDA match :
    Let(CASE value.k = "dict" ->
                 ParseNumericToken(IF value.quantity = Missing THEN <<>>
                                   ELSE PyStr(value.quantity))
          [] value.k = "str" /\ match.ok -> ParseNumericToken(match.quantity)
          [] OTHER -> NoneVal,
        LAMBDA quantity :
    Let(CASE value.k = "dict" ->
                 IF value.unit = Missing THEN <<>> ELSE LowerStr(PyStr(value.unit))
          [] value.k = "str" /\ match.ok -> match.unit
          [] OTHER -> <<>>,
        LAMBDA unit :
    RelativeWindowOf(quantity, unit, default_end,
                     IF default_end # NoneVal THEN default_end ELSE today))))

\* the planner's answer: no client configured, a call or a json.loads that
\* raised, or the value json.loads returned
NoClient == [k |-> "noclient"]
NoJson == [k |-> "nojson"]
Json(payload) == [k |-> "json", payload |-> payload]

\* the tools and the tickers of the reply, lines 365-374
ReplyTools(payload) ==
    LET items == EnsureSequence(payload.tools)
        names == [i \in 1..Len(items) |-> LowerStr(PyStr(items[i]))]
    IN SelectSeq(names, LAMBDA name : InSeq(name, ToolMap))
ReplyTickers(payload) ==
    LET items == SelectSeq(EnsureSequence(payload.tickers),
                           LAMBDA item : item.k = "str" /\ Strip(item.s) # <<>>)
    IN [i \in 1..Len(items) |-> UpperStr(items[i].s)]

\* mutant of InterpretWithLLM: the lookback is measured from today, whatever
\* end date the reply gives
InterpretWithLLMFromToday(reply, today) ==
    IF reply.k \in {"noclient", "nojson"} THEN [raised |-> FALSE, plan |-> NoneVal]
    ELSE IF reply.payload.k # "payload" THEN [raised |-> TRUE, plan |-> NoneVal]
    ELSE
    Let(reply.payload, LAMBDA payload :
    Let(ParseDateValue(payload.start_date), LAMBDA parsed_start :
    Let(ParseDateValue(payload.end_date), LAMBDA parsed_end :
    Let(IF JsonTruthy(payload.lookback) /\ parsed_start = NoneVal
        THEN InterpretRelativeWindow(payload.lookback, NoneVal, today)
        ELSE [raised |-> FALSE, start |-> parsed_start, end |-> NoneVal],
        LAMBDA window :
    IF window.raised THEN [raised |-> TRUE, plan |-> NoneVal]
    ELSE [raised |-> FALSE,
          plan |-> QueryPlan(Dedupe(ReplyTools(payload)),
                             Dedupe(ReplyTickers(payload)),
                             window.start,
                             IF window.end # NoneVal /\ parsed_end = NoneVal
                             THEN window.end ELSE parsed_end)]))))

\* _interpret_with_llm, lines 321-387: [raised, plan], plan NoneVal for
\* `return None`. Only the call and json.loads are inside the try: a value that
\* is no dict has no .get, and the lookback arithmetic can raise.
InterpretWithLLM(reply, today) ==
    IF reply.k \in {"noclient", "nojson"} THEN [raised |-> FALSE, plan |-> NoneVal]
    ELSE IF reply.payload.k # "payload" THEN [raised |-> TRUE, plan |-> NoneVal]
    ELSE
    Let(reply.payload, LAMBDA payload :
    Let(ParseDateValue(payload.start_date), LAMBDA parsed_start :
    Let(ParseDateValue(payload.end_date), LAMBDA parsed_end :
    Let(IF JsonTruthy(payload.lookback) /\ parsed_start = NoneVal
        THEN InterpretRelativeWindow(payload.lookback, parsed_end, today)
        ELSE [raised |-> FALSE, start |-> parsed_start, end |-> NoneVal],
        LAMBDA window :
    IF window.raised THEN [raised |-> TRUE, plan |-> NoneVal]
    ELSE [raised |-> FALSE,
          plan |-> QueryPlan(Dedupe(ReplyTools(payload)),
                             Dedupe(ReplyTickers(payload)),
                             window.start,
                             IF window.end # NoneVal /\ parsed_end = NoneVal
                             THEN window.end ELSE parsed_end)]))))

\* mutant of MergePlans: the start date of the heuristic plan comes first
MergePlansHeuristicStart(heuristic_plan, llm_plan) ==
    QueryPlan(IF llm_plan.tools # <<>> THEN llm_plan.tools ELSE heuristic_plan.tools,
              IF llm_plan.tickers # <<>> THEN llm_plan.tickers ELSE heuristic_plan.tickers,
              IF heuristic_plan.start_date # NoneVal THEN heuristic_plan.start_date
              ELSE llm_plan.start_date,
              IF llm_plan.end_date # NoneVal THEN llm_plan.end_date
              ELSE heuristic_plan.end_date)

\* mutant of MergePlans: the assisted plan taken whole
MergeWhole(heuristic_plan, llm_plan) == llm_plan
\* the merge of interpret_query, lines 395-399
MergePlans(heuristic_plan, llm_plan) ==
    QueryPlan(IF llm_plan.tools # <<>> THEN llm_plan.tools ELSE heuristic_plan.tools,
              IF llm_plan.tickers # <<>> THEN llm_plan.tickers ELSE heuristic_plan.tickers,
              IF llm_plan.start_date # NoneVal THEN llm_plan.start_date
              ELSE heuristic_plan.start_date,
              IF llm_plan.end_date # NoneVal THEN llm_plan.end_date
              ELSE heuristic_plan.end_date)

\* interpret_query, lines 389-399: [raised, heuristic_plan, llm_plan, plan]
InterpretQueryOf(heuristic_plan, llm) ==
    IF heuristic_plan = Raised
    THEN [raised |-> TRUE, heuristic_plan |-> NoneVal, llm_plan |-> NoneVal,
          plan |-> NoneVal]
    ELSE IF llm.raised
    THEN [raised |-> TRUE, heuristic_plan |-> heuristic_plan, llm_plan |-> NoneVal,
          plan |-> NoneVal]
    ELSE [raised |-> FALSE, heuristic_plan |-> heuristic_plan, llm_plan |-> llm.plan,
          plan |-> IF llm.plan = NoneVal THEN heuristic_plan
                   ELSE MergePlans(heuristic_plan, llm.plan)]

InterpretQuery(query, reply, today) ==
    Let(KeywordPlan(query, today), LAMBDA heuristic_plan :
    Let(InterpretWithLLM(reply, today), LAMBDA llm :
        InterpretQueryOf(heuristic_plan, llm)))

(***************************** inputs ***************************************)
\* a well-formed typed record: a date, an upper-case ticker, a non-zero price
PlainRows ==
    {Row(DateVal(d), NoneVal, Str(t), NoneVal, Num(p), NoneVal) :
        d \in 1..MaxDay, t \in Range(Symbols), p \in 1..MaxPrice}

\* the spellings and types a field arrives in, as <<Upper-key, lower-key>>
PlainDates == {<<DateVal(1), NoneVal>>, <<NoneVal, IsoStr(2)>>}
OddDates == {<<DateTimeVal(2), NoneVal>>, <<Str("n/a"), NoneVal>>, <<NoneVal, NoneVal>>}
PlainTickers == {<<Str("AAA"), NoneVal>>, <<NoneVal, Str("bbb")>>}
OddTickers == {<<Str(""), NoneVal>>, <<NoneVal, NoneVal>>}
PlainCloses == {<<Num(1), NoneVal>>, <<NoneVal, NumStr(2)>>}
OddCloses == {<<Num(0), NoneVal>>, <<NumStr(0), NoneVal>>, <<Str("n/a"), NoneVal>>,
              <<NoneVal, NoneVal>>}

\* raw records: at most one field of a row is odd
RawRows ==
    {Row(D[1], D[2], T[1], T[2], C[1], C[2]) :
        D \in PlainDates \cup OddDates, T \in PlainTickers, C \in PlainCloses}
    \cup {Row(D[1], D[2], T[1], T[2], C[1], C[2]) :
        D \in PlainDates, T \in OddTickers, C \in PlainCloses}
    \cup {Row(D[1], D[2], T[1], T[2], C[1], C[2]) :
        D \in PlainDates, T \in PlainTickers, C \in OddCloses}
    \cup {NotADict}

(***************************** actions **************************************)
\* the parts of the state a specification does not exercise stay idle
CleanIdle ==
    /\ records = <<>>
    /\ cleanPc = "idle"
    /\ normalized = <<>>
    /\ matrix = EmptyMatrix
    /\ realigned = EmptyMatrix

MonthsIdle ==
    /\ reference = NoneVal
    /\ periodCall = NoneVal
    /\ periodResult = NoneVal

NumeralIdle ==
    /\ token = <<>>
    /\ numeralPc = "idle"
    /\ numeral = NoneVal

PlanIdle ==
    /\ clock = NoneVal
    /\ request = <<>>
    /\ phrases = <<>>
    /\ planPc = "idle"
    /\ heuristicPlan = NoneVal
    /\ answer = NoneVal
    /\ llmPlan = NoneVal
    /\ plan = NoneVal

ToolIdle ==
    /\ toolData = NoneVal
    /\ toolWindow = 0
    /\ toolPc = "idle"
    /\ toolResult = NoneVal

PipeIdle ==
    /\ form = NoneVal
    /\ upload = NoneVal
    /\ marketData = <<>>
    /\ commentary = NoneVal
    /\ calls = <<>>
    /\ agentResult = NoneVal
    /\ response = NoneVal
    /\ servePc = "idle"

InitClean ==
    /\ records = <<>>
    /\ cleanPc = "input"
    /\ normalized = <<>>
    /\ matrix = EmptyMatrix
    /\ realigned = EmptyMatrix
    /\ MonthsIdle
    /\ NumeralIdle
    /\ PlanIdle
    /\ ToolIdle
    /\ PipeIdle

\* the caller adds a well-formed record to the batch
AppendRecord ==
    /\ cleanPc = "input"
    /\ Len(records) < MaxRecords
    /\ \E row \in PlainRows : records' = Append(records, row)
    /\ UNCHANGED <<cleanPc, normalized, matrix, realigned>>
    /\ UNCHANGED <<monthsVars, planVars, toolVars, pipeVars, numeralVars>>

\* the caller adds a raw record of any shape to the batch
AppendRawRecord ==
    /\ cleanPc = "input"
    /\ Len(records) < MaxRawRecords
    /\ \E row \in RawRows : records' = Append(records, row)
    /\ UNCHANGED <<cleanPc, normalized, matrix, realigned>>
    /\ UNCHANGED <<monthsVars, planVars, toolVars, pipeVars, numeralVars>>

\* clean_stock_data(records)
Clean ==
    /\ cleanPc = "input"
    /\ LET r == CleanStockData(records)
       IN /\ cleanPc' = IF r.raised THEN "raised" ELSE "done"
          /\ normalized' = r.normalized
          /\ matrix' = r.matrix
    /\ UNCHANGED <<records, realigned>>
    /\ UNCHANGED <<monthsVars, planVars, toolVars, pipeVars, numeralVars>>

\* clean_stock_data on the records of the matrix it returned
Realign ==
    /\ cleanPc = "done"
    /\ LET r == CleanStockData(MatrixRecords(matrix))
       IN /\ cleanPc' = IF r.raised THEN "raised" ELSE "realigned"
          /\ realigned' = r.matrix
    /\ UNCHANGED <<records, normalized, matrix>>
    /\ UNCHANGED <<monthsVars, planVars, toolVars, pipeVars, numeralVars>>

NextAlign == AppendRecord \/ Clean \/ Realign
SpecAlign == InitClean /\ [][NextAlign]_vars

NextRaw == AppendRawRecord \/ Clean \/ Realign
SpecRaw == InitClean /\ [][NextRaw]_vars

(***************************** period subtraction ***************************)
\* every date of the reference years
RefDates ==
    UNION {{YMD(ym[1], ym[2], d) : d \in 1..DaysInMonth(ym[1], ym[2])} :
              ym \in (2023..(2023 + MaxYearSpan)) \X (1..12)}

InitMonths ==
    /\ reference \in RefDates
    /\ periodCall = NoneVal
    /\ periodResult = NoneVal
    /\ CleanIdle
    /\ NumeralIdle
    /\ PlanIdle
    /\ ToolIdle
    /\ PipeIdle

\* _months_ago(reference, n)
CallMonthsAgo ==
    /\ periodCall = NoneVal
    /\ \E n \in 1..MaxMonths :
           /\ periodCall' = [fn |-> "months_ago", n |-> n]
           /\ periodResult' = MonthsAgo(reference, n)
    /\ UNCHANGED reference
    /\ UNCHANGED <<cleanVars, planVars, toolVars, pipeVars, numeralVars>>

\* _subtract_period(reference, n, unit) for a month or year unit
CallSubtractPeriod ==
    /\ periodCall = NoneVal
    /\ \E n \in 1..MaxYears : \E unit \in {<<"y", "e", "a", "r">>, <<"y", "e", "a", "r", "s">>, <<"y">>, <<"y", "r">>, <<"y", "r", "s">>} :
           /\ periodCall' = [fn |-> "subtract_years", n |-> n]
           /\ periodResult' = SubtractPeriod(reference, n, unit)
    /\ UNCHANGED reference
    /\ UNCHANGED <<cleanVars, planVars, toolVars, pipeVars, numeralVars>>

NextMonths == CallMonthsAgo \/ CallSubtractPeriod
SpecMonths == InitMonths /\ [][NextMonths]_vars

(***************************** heuristic planning ***************************)
\* the reference dates: the one the repository's test pins _today to
\* (tests/test_analysis.py line 160) and a month end
Todays == {YMD(2024, 7, 1), YMD(2024, 3, 31)}

\* the pieces of a request: what is typed, and for a relative-time phrase the
\* count n and the unit it names
Words == {<<"A", "A", "P", "L", " ">>, <<" ", "s", "m", "a">>, <<" ", "r", "s", "i", " ">>}
EnglishQuantities ==
    {[text |-> <<"1">>, n |-> 1],
     [text |-> <<"6">>, n |-> 6],
     [text |-> <<"1", "2">>, n |-> 12],
     [text |-> <<"0">>, n |-> 0],
     [text |-> <<"3", "0", "0", "0">>, n |-> 3000],
     [text |-> <<"o", "n", "e">>, n |-> 1],
     [text |-> <<"s", "i", "x">>, n |-> 6],
     [text |-> <<"t", "w", "e", "l", "v", "e">>, n |-> 12]}
EnglishUnitNames ==
    {[text |-> <<"d", "a", "y">>, unit |-> "day"],
     [text |-> <<"d", "a", "y", "s">>, unit |-> "day"],
     [text |-> <<"w", "e", "e", "k">>, unit |-> "week"],
     [text |-> <<"w", "e", "e", "k", "s">>, unit |-> "week"],
     [text |-> <<"m", "o", "n", "t", "h">>, unit |-> "month"],
     [text |-> <<"m", "o", "n", "t", "h", "s">>, unit |-> "month"],
     [text |-> <<"y", "e", "a", "r">>, unit |-> "year"],
     [text |-> <<"y", "e", "a", "r", "s">>, unit |-> "year"]}
CompactQuantities ==
    {[text |-> <<"1">>, n |-> 1],
     [text |-> <<"6">>, n |-> 6],
     [text |-> <<"1", "2">>, n |-> 12],
     [text |-> <<"0">>, n |-> 0],
     [text |-> <<"5", "0", "0", "0">>, n |-> 5000]}
CompactUnitNames ==
    {[text |-> <<"y">>, unit |-> "year"],
     [text |-> <<"y", "r">>, unit |-> "year"],
     [text |-> <<"y", "r", "s">>, unit |-> "year"],
     [text |-> <<"m">>, unit |-> "month"],
     [text |-> <<"m", "o">>, unit |-> "month"],
     [text |-> <<"m", "o", "s">>, unit |-> "month"],
     [text |-> <<"w">>, unit |-> "week"],
     [text |-> <<"w", "k">>, unit |-> "week"],
     [text |-> <<"w", "k", "s">>, unit |-> "week"],
     [text |-> <<"d">>, unit |-> "day"]}
ChineseQuantities ==
    {[text |-> <<"#san">>, n |-> 3],
     [text |-> <<"#shi", "#er">>, n |-> 12],
     [text |-> <<"#liang">>, n |-> 2],
     [text |-> <<"#yi">>, n |-> 1],
     [text |-> <<"6">>, n |-> 6],
     [text |-> <<"0">>, n |-> 0]}
ChineseUnitNames ==
    {[text |-> <<"#nian">>, unit |-> "year"],
     [text |-> <<"#ge", "#yue">>, unit |-> "month"],
     [text |-> <<"#yue">>, unit |-> "month"],
     [text |-> <<"#zhou">>, unit |-> "week"],
     [text |-> <<"#xing", "#qi">>, unit |-> "week"],
     [text |-> <<"#tian">>, unit |-> "day"],
     [text |-> <<"#ri">>, unit |-> "day"]}
NamedWindows == {<<"#guo", "#qu", "#ban", "#nian">>, <<"l", "a", "s", "t", " ", "y", "e", "a", "r">>, <<"p", "a", "s", "t", " ", "y", "e", "a", "r">>}

IsPhrase(piece) == piece.kind # "word"
Count(s, P(_)) == Cardinality({i \in 1..Len(s) : P(s[i])})

InitPeriod ==
    /\ clock \in Todays
    /\ request = <<>>
    /\ phrases = <<>>
    /\ planPc = "typing"
    /\ heuristicPlan = NoneVal
    /\ answer = NoneVal
    /\ llmPlan = NoneVal
    /\ plan = NoneVal
    /\ CleanIdle
    /\ MonthsIdle
    /\ NumeralIdle
    /\ ToolIdle
    /\ PipeIdle

\* the user types a word that names no period
TypeWord ==
    /\ planPc = "typing"
    /\ Count(phrases, LAMBDA piece : ~IsPhrase(piece)) < MaxWords
    /\ \E w \in Words :
           /\ request' = request \o w
           /\ phrases' = Append(phrases, [kind |-> "word", n |-> 0, unit |-> "none"])
    /\ UNCHANGED <<clock, planPc, heuristicPlan, answer, llmPlan, plan>>
    /\ UNCHANGED <<cleanVars, monthsVars, toolVars, pipeVars, numeralVars>>

\* the user types "past N unit", "last N unit" or "trailing N unit"
TypeEnglish ==
    /\ planPc = "typing"
    /\ Count(phrases, IsPhrase) < MaxPhrases
    /\ \E kw \in Range(EnglishKeywords), q \in EnglishQuantities, u \in EnglishUnitNames :
           /\ request' = request \o kw \o <<" ">> \o q.text \o <<" ">> \o u.text
           /\ phrases' = Append(phrases, [kind |-> "english", n |-> q.n, unit |-> u.unit])
    /\ UNCHANGED <<clock, planPc, heuristicPlan, answer, llmPlan, plan>>
    /\ UNCHANGED <<cleanVars, monthsVars, toolVars, pipeVars, numeralVars>>

\* the user types the shorthand "Nunit"
TypeCompact ==
    /\ planPc = "typing"
    /\ Count(phrases, IsPhrase) < MaxPhrases
    /\ \E q \in CompactQuantities, u \in CompactUnitNames :
           /\ request' = request \o q.text \o u.text
           /\ phrases' = Append(phrases, [kind |-> "compact", n |-> q.n, unit |-> u.unit])
    /\ UNCHANGED <<clock, planPc, heuristicPlan, answer, llmPlan, plan>>
    /\ UNCHANGED <<cleanVars, monthsVars, toolVars, pipeVars, numeralVars>>

\* the user types "#guo" "#qu" N unit
TypeChinese ==
    /\ planPc = "typing"
    /\ Count(phrases, IsPhrase) < MaxPhrases
    /\ \E q \in ChineseQuantities, u \in ChineseUnitNames :
           /\ request' = request \o <<"#guo", "#qu">> \o q.text \o u.text
           /\ phrases' = Append(phrases, [kind |-> "chinese", n |-> q.n, unit |-> u.unit])
    /\ UNCHANGED <<clock, planPc, heuristicPlan, answer, llmPlan, plan>>
    /\ UNCHANGED <<cleanVars, monthsVars, toolVars, pipeVars, numeralVars>>

\* the user types a window that has a name: the past half year, last year
TypeNamedWindow ==
    /\ planPc = "typing"
    /\ Count(phrases, IsPhrase) < MaxPhrases
    /\ \E w \in NamedWindows :
           /\ request' = request \o w
           /\ phrases' = Append(phrases, [kind |-> "named", n |-> 0, unit |-> "none"])
    /\ UNCHANGED <<clock, planPc, heuristicPlan, answer, llmPlan, plan>>
    /\ UNCHANGED <<cleanVars, monthsVars, toolVars, pipeVars, numeralVars>>

\* _keyword_plan(query)
CallKeywordPlan ==
    /\ planPc = "typing"
    /\ \E r \in {KeywordPlan(request, clock)} :
           /\ planPc' = IF r = Raised THEN "raised" ELSE "planned"
           /\ heuristicPlan' = IF r = Raised THEN NoneVal ELSE r
    /\ UNCHANGED <<clock, request, phrases, answer, llmPlan, plan>>
    /\ UNCHANGED <<cleanVars, monthsVars, toolVars, pipeVars, numeralVars>>

NextPeriod ==
    TypeWord \/ TypeEnglish \/ TypeCompact \/ TypeChinese \/ TypeNamedWindow
        \/ CallKeywordPlan
SpecPeriod == InitPeriod /\ [][NextPeriod]_vars

(***************************** numeral tokens *******************************)
\* the characters of a token: the keys of the digit table and a character of
\* the same script outside it
NumeralChars == DOMAIN ChineseDigitMap \cup {"#bai"}
NumeralTokens == UNION {[1..n -> NumeralChars] : n \in 1..MaxTokenLen}

InitNumeral ==
    /\ token \in NumeralTokens
    /\ numeralPc = "input"
    /\ numeral = NoneVal
    /\ CleanIdle
    /\ MonthsIdle
    /\ PlanIdle
    /\ ToolIdle
    /\ PipeIdle

\* _parse_chinese_numeral(token)
CallParseChineseNumeral ==
    /\ numeralPc = "input"
    /\ numeral' = ParseChineseNumeral(token)
    /\ numeralPc' = "returned"
    /\ UNCHANGED token
    /\ UNCHANGED <<cleanVars, monthsVars, planVars, toolVars, pipeVars>>

NextNumeral == CallParseChineseNumeral
SpecNumeral == InitNumeral /\ [][NextNumeral]_vars

(***************************** assisted planning ****************************)
\* the words of a request: tickers, company names, tool names, periods
RequestWords ==
    {<<"A", "A", "P", "L">>,
     <<"a", "p", "p", "l", "e">>,
     <<"T", "S", "L", "A">>,
     <<"t", "e", "s", "l", "a">>,
     <<"S", "M", "A">>,
     <<"z", "-", "s", "c", "o", "r", "e">>,
     <<"A", "A", "P", "L", " ", "p", "a", "s", "t", " ", "s", "i", "x", " ", "m", "o", "n", "t", "h", "s", " ", "s", "m", "a">>,
     <<"p", "a", "s", "t", " ", "6", " ", "m", "o", "n", "t", "h", "s">>,
     <<"p", "a", "s", "t", " ", "3", "0", "0", "0", " ", "y", "e", "a", "r", "s">>}

\* the members of the planner's reply
ReplyToolsValues ==
    {NoneVal,
     Str(<<"S", "M", "A">>),
     List(<<Str(<<"s", "m", "a">>), Str(<<"s", "m", "a">>), Str(<<"R", "S", "I">>)>>),
     List(<<Str(<<"b", "o", "g", "u", "s">>), Num(5)>>)}
ReplyTickersValues ==
    {NoneVal,
     List(<<Str(<<"A", "A", "P", "L">>), Str(<<"a", "a", "p", "l">>), Str(<<" ", " ">>)>>),
     List(<<Str(<<>>), Num(5), Str(<<"M", "S", "F", "T">>), Str(<<"M", "S", "F", "T">>)>>)}
ReplyStartValues == {NoneVal, Str(<<"2", "0", "2", "4", "-", "0", "1", "-", "1", "5">>), Str(<<"g", "a", "r", "b", "a", "g", "e">>)}
ReplyEndValues ==
    {NoneVal,
     Str(<<"2", "0", "2", "4", "-", "0", "6", "-", "3", "0">>),
     Str(<<"2", "0", "2", "4", "-", "0", "1", "-", "0", "1">>)}
ReplyLookbackValues ==
    {NoneVal,
     Lookback(Num(3), Str(<<"m", "o", "n", "t", "h">>)),
     Lookback(Num(3000), Str(<<"y", "e", "a", "r">>)),
     Lookback(Num(2), Str(<<"s", "p", "r", "i", "n", "t">>)),
     Str(<<"t", "w", "o", " ", "w", "e", "e", "k", "s">>)}
\* what the planner can answer: nothing, no JSON, JSON that is no object, an
\* object
Replies ==
    {NoClient, NoJson, Json(NoneVal), Json(List(<<>>))}
        \cup {Json(Payload(tools, tickers, start_date, end_date, lookback)) :
                 tools \in ReplyToolsValues, tickers \in ReplyTickersValues,
                 start_date \in ReplyStartValues, end_date \in ReplyEndValues,
                 lookback \in ReplyLookbackValues}

\* the user types a word of the request
TypeRequest ==
    /\ planPc = "typing"
    /\ Len(phrases) < MaxRequestWords
    /\ \E w \in RequestWords :
           /\ request' = IF request = <<>> THEN w ELSE request \o <<" ">> \o w
           /\ phrases' = Append(phrases, [kind |-> "word", n |-> 0, unit |-> "none"])
    /\ UNCHANGED <<clock, planPc, heuristicPlan, answer, llmPlan, plan>>
    /\ UNCHANGED <<cleanVars, monthsVars, toolVars, pipeVars, numeralVars>>

\* interpret_query(query), the planner answering r
CallInterpretQuery ==
    /\ planPc = "typing"
    /\ \E r \in Replies : \E out \in {InterpretQuery(request, r, clock)} :
           /\ answer' = r
           /\ planPc' = IF out.raised THEN "raised" ELSE "returned"
           /\ heuristicPlan' = out.heuristic_plan
           /\ llmPlan' = out.llm_plan
           /\ plan' = out.plan
    /\ UNCHANGED <<clock, request, phrases>>
    /\ UNCHANGED <<cleanVars, monthsVars, toolVars, pipeVars, numeralVars>>

InitPlan ==
    /\ clock = YMD(2024, 7, 1)
    /\ request = <<>>
    /\ phrases = <<>>
    /\ planPc = "typing"
    /\ heuristicPlan = NoneVal
    /\ answer = NoneVal
    /\ llmPlan = NoneVal
    /\ plan = NoneVal
    /\ CleanIdle
    /\ MonthsIdle
    /\ NumeralIdle
    /\ ToolIdle
    /\ PipeIdle

NextPlan == TypeRequest \/ CallInterpretQuery
SpecPlan == InitPlan /\ [][NextPlan]_vars

(***************************** analytics tools ******************************)
\* Part 3: app/tools. Prices are integers here and every quotient the code
\* computes in floating point is kept exact, as a fraction in lowest terms
\* with a positive denominator, so that equal values are equal records.
Abs(n) == IF n < 0 THEN -n ELSE n
Max(a, b) == IF a >= b THEN a ELSE b
Min(a, b) == IF a <= b THEN a ELSE b

RECURSIVE Gcd(_, _)
Gcd(a, b) == IF b = 0 THEN a ELSE Gcd(b, a % b)

\* num / den for den # 0
Fraction(num, den) ==
    LET g == Gcd(Abs(num), Abs(den))
        s == IF den < 0 THEN -1 ELSE 1
    IN [num |-> (s * num) \div g, den |-> (s * den) \div g]

\* a / b of Python: ZeroDivisionError when b is zero
TrueDiv(a, b) == IF b = 0 THEN Raised ELSE Fraction(a, b)

\* sum(xs)
RECURSIVE Sum(_)
Sum(xs) == IF xs = <<>> THEN 0 ELSE Head(xs) + Sum(Tail(xs))

\* xs[start : stop] for 0 <= start, the indices counted from 0
Slice(xs, start, stop) == SubSeq(xs, start + 1, Min(stop, Len(xs)))

\* mutant of SimpleMovingAverage: the sum of the window is divided by the
\* window argument, not by the number of values in the slice
SimpleMovingAverageByWindow(values, window) ==
    LET window_values(idx) == Slice(values, Max(0, idx - window + 1), idx + 1)
    IN IF \E idx \in 0..(Len(values) - 1) : window = 0
       THEN Raised
       ELSE List([i \in 1..Len(values) |-> TrueDiv(Sum(window_values(i - 1)), window)])

\* sma.py 10-16; the first empty slice raises ZeroDivisionError
SimpleMovingAverage(values, window) ==
    LET window_values(idx) == Slice(values, Max(0, idx - window + 1), idx + 1)
    IN IF \E idx \in 0..(Len(values) - 1) : window_values(idx) = <<>>
       THEN Raised
       ELSE List([i \in 1..Len(values) |->
                     TrueDiv(Sum(window_values(i - 1)), Len(window_values(i - 1)))])

(***************************** RSI ******************************************)
\* exact arithmetic on fractions
FromInt(n) == Fraction(n, 1)
FAdd(a, b) == Fraction(a.num * b.den + b.num * a.den, a.den * b.den)
FSub(a, b) == Fraction(a.num * b.den - b.num * a.den, a.den * b.den)
FMul(a, b) == Fraction(a.num * b.num, a.den * b.den)
FDiv(a, b) == TrueDiv(a.num * b.den, a.den * b.num)
FLess(a, b) == a.num * b.den < b.num * a.den

\* float("inf")
Inf == [k |-> "inf"]

\* xs[-1]: IndexError on an empty list
Last(xs) == IF xs = <<>> THEN Raised ELSE xs[Len(xs)]

\* f"{x:.1f}", f"{x:.2f}": x rounded half-even to that many decimals, kept as
\* the whole number of its last-place units
FormatFixed(x, digits) ==
    LET scale == IF digits = 1 THEN 10 ELSE 100
        q == (x.num * scale) \div x.den
        r == (x.num * scale) % x.den
    IN [k |-> "fixed", digits |-> digits,
        units |-> IF 2 * r < x.den THEN q
                  ELSE IF 2 * r > x.den THEN q + 1
                  ELSE IF q % 2 = 0 THEN q ELSE q + 1]

\* a PriceMatrix: tickers is list(series.keys())
PriceMatrix(dates, tickers, series) ==
    [dates |-> dates, tickers |-> tickers, series |-> series]

\* preprocess.py 20-21
IsEmpty(data) == data.dates = <<>> \/ data.tickers = <<>>

ToolResult(name, summary, images) ==
    [k |-> "result", name |-> name, summary |-> summary, images |-> images]

\* a fixed string
Text(s) == [k |-> "text", s |-> s]

\* sep.join(parts)
Join(sep, parts) == [k |-> "joined", sep |-> sep, parts |-> parts]

\* plot_lines: the figure of the series over the dates
PlotLines(dates, series_map, title, y_label) ==
    [k |-> "lines", dates |-> dates, series_map |-> series_map,
     title |-> title, y_label |-> y_label]

\* the image reference stored for a figure
FigureToUrl(figure) == [k |-> "url", figure |-> figure]

\* the default period of analyze_rsi
RsiPeriod == 14

\* lines 14-16
Deltas(prices) == [i \in 1..(Len(prices) - 1) |-> prices[i + 1] - prices[i]]
Gains(deltas) == [i \in DOMAIN deltas |-> Max(deltas[i], 0)]
Losses(deltas) == [i \in DOMAIN deltas |-> Abs(Min(deltas[i], 0))]

\* lines 25-26: ((period - 1) * avg + x) / period
Smooth(period, avg, x) ==
    Let(FAdd(FMul(FromInt(period - 1), avg), FromInt(x)),
        LAMBDA s : TrueDiv(s.num, s.den * period))

\* mutant of RelativeStrength: the zero test on avg_loss is gone
RelativeStrengthUnguarded(avg_gain, avg_loss) == FDiv(avg_gain, avg_loss)

\* lines 27-30
RelativeStrength(avg_gain, avg_loss) ==
    IF avg_loss = FromInt(0) THEN Inf ELSE FDiv(avg_gain, avg_loss)

\* line 31
RsiOf(rs) ==
    IF rs # Inf
    THEN Let(FDiv(FromInt(100), FAdd(FromInt(1), rs)),
             LAMBDA q : IF q = Raised THEN Raised ELSE FSub(FromInt(100), q))
    ELSE FromInt(100)

\* lines 23-31, from index i on
RECURSIVE RsiLoop(_, _, _, _, _, _, _)
RsiLoop(gains, losses, period, i, avg_gain, avg_loss, rsi_values) ==
    IF i > Len(gains) THEN List(rsi_values)
    ELSE Let(<<Smooth(period, avg_gain, gains[i]), Smooth(period, avg_loss, losses[i])>>,
             LAMBDA avg :
                IF avg[1] = Raised \/ avg[2] = Raised THEN Raised
                ELSE Let(RelativeStrength(avg[1], avg[2]),
                         LAMBDA rs :
                            IF rs = Raised THEN Raised
                            ELSE Let(RsiOf(rs),
                                     LAMBDA v :
                                        IF v = Raised THEN Raised
                                        ELSE RsiLoop(gains, losses, period, i + 1,
                                                     avg[1], avg[2],
                                                     [rsi_values EXCEPT ![i + 1] = v]))))

\* rsi.py 10-33
ComputeRsi(prices, period) ==
    IF Len(prices) < 2 THEN List([i \in 1..Len(prices) |-> FromInt(50)])
    ELSE Let(Deltas(prices),
             LAMBDA deltas :
                RsiLoop(Gains(deltas), Losses(deltas), period, 1,
                        FromInt(Gains(deltas)[1]), FromInt(Losses(deltas)[1]),
                        [i \in 1..Len(prices) |-> FromInt(50)]))

\* lines 47-52
RsiState(latest) ==
    IF FLess(FromInt(70), latest) THEN "overbought"
    ELSE IF FLess(latest, FromInt(30)) THEN "oversold"
    ELSE "neutral"

\* lines 43-54 for one ticker: the summary entry and the plotted series
RsiOfTicker(data, period, ticker) ==
    Let(ComputeRsi(data.series[ticker], period),
        LAMBDA rsi_values :
            IF rsi_values = Raised THEN Raised
            ELSE Let(Last(rsi_values.items),
                     LAMBDA latest :
                        IF latest = Raised THEN Raised
                        ELSE [ticker |-> ticker, state |-> RsiState(latest),
                              rsi |-> FormatFixed(latest, 1),
                              rsi_values |-> rsi_values.items]))

\* rsi.py 36-66
AnalyzeRsi(data, period) ==
    IF IsEmpty(data)
    THEN ToolResult(<<"r", "s", "i">>, Text("No price data provided for RSI."), <<>>)
    ELSE Let([i \in DOMAIN data.tickers |-> RsiOfTicker(data, period, data.tickers[i])],
             LAMBDA per :
                IF \E i \in DOMAIN per : per[i] = Raised THEN Raised
                ELSE ToolResult(<<"r", "s", "i">>,
                        Join("; ", [i \in DOMAIN per |->
                                       [ticker |-> per[i].ticker, state |-> per[i].state,
                                        rsi |-> per[i].rsi]]),
                        <<FigureToUrl(PlotLines(
                            [i \in DOMAIN data.dates |-> IsoStr(data.dates[i])],
                            [i \in DOMAIN per |-> <<per[i].ticker, per[i].rsi_values>>],
                            <<period, "-Period RSI">>, "RSI"))>>))

(***************************** z-score **************************************)
\* A z-score is a difference divided by a standard deviation, the square root
\* of a fraction: it is kept as its sign and its square, which is exact and
\* makes equal scores equal records.
Sign(n) == IF n < 0 THEN -1 ELSE IF n > 0 THEN 1 ELSE 0
Score(sign, square) == [k |-> "score", sign |-> sign, square |-> square]
ZeroScore == Score(0, FromInt(0))

\* -z, abs(a) < abs(b), a < b
Neg(z) == Score(-z.sign, z.square)
AbsLess(a, b) == FLess(a.square, b.square)
ScoreLess(a, b) ==
    IF a.sign # b.sign THEN a.sign < b.sign
    ELSE IF a.sign = 1 THEN FLess(a.square, b.square)
    ELSE IF a.sign = -1 THEN FLess(b.square, a.square)
    ELSE FALSE

\* f"{z:.2f}": the sign and the hundredths of abs(z), rounded half-even
FormatScore(z) ==
    LET n == 40000 * z.square.num
        d == z.square.den
        units == CHOOSE r \in 0..(100 * (z.square.num \div d + 1)) :
                    /\ r > 0 => (2 * r - 1) * (2 * r - 1) * d <= n
                    /\ n <= (2 * r + 1) * (2 * r + 1) * d
                    /\ (r > 0 /\ (2 * r - 1) * (2 * r - 1) * d = n) => r % 2 = 0
                    /\ ((2 * r + 1) * (2 * r + 1) * d = n) => r % 2 = 0
    IN [k |-> "fixed", digits |-> 2, sign |-> z.sign, units |-> units]

\* statistics.mean and statistics.pstdev; the deviation is kept by its square,
\* the population variance; both raise StatisticsError on an empty list
Mean(xs) == TrueDiv(Sum(xs), Len(xs))
Pstdev(xs) ==
    IF xs = <<>> THEN Raised
    ELSE [k |-> "root",
          square |-> Fraction(Len(xs) * Sum([i \in DOMAIN xs |-> xs[i] * xs[i]])
                                  - Sum(xs) * Sum(xs),
                              Len(xs) * Len(xs))]

\* mutant of IsZero: no deviation counts as zero, so no pair is skipped
IsZeroNever(spread_std) == FALSE

\* line 29: spread_std == 0
IsZero(spread_std) == spread_std.square = FromInt(0)

\* line 32: (value - spread_mean) / spread_std
ZValue(value, spread_mean, spread_std) ==
    Let(FSub(FromInt(value), spread_mean),
        LAMBDA diff :
            IF spread_std.square = FromInt(0) THEN Raised
            ELSE Score(Sign(diff.num), FDiv(FMul(diff, diff), spread_std.square)))

\* itertools.combinations(tickers, 2), as index pairs
RECURSIVE Combinations2From(_, _, _)
Combinations2From(n, i, j) ==
    IF i >= n THEN <<>>
    ELSE IF j > n THEN Combinations2From(n, i + 1, i + 2)
    ELSE <<(<<i, j>>)>> \o Combinations2From(n, i, j + 1)
Combinations2(tickers) == Combinations2From(Len(tickers), 1, 2)

\* zip(left_series, right_series) and line 27
Spread(left_series, right_series) ==
    [i \in 1..Min(Len(left_series), Len(right_series)) |->
        left_series[i] - right_series[i]]

Skipped == [k |-> "skipped"]

\* lines 25-34 for one pair: Skipped, or the pair with its z-score series
PairScores(data, left, right) ==
    Let(Spread(data.series[left], data.series[right]),
        LAMBDA spread :
            Let(Pstdev(spread),
                LAMBDA spread_std :
                    IF spread_std = Raised THEN Raised
                    ELSE IF IsZero(spread_std) THEN Skipped
                    ELSE Let([i \in DOMAIN spread |->
                                 ZValue(spread[i], Mean(spread), spread_std)],
                             LAMBDA z_values :
                                IF \E i \in DOMAIN z_values : z_values[i] = Raised
                                THEN Raised
                                ELSE [k |-> "pair", left |-> left, right |-> right,
                                      z_values |-> z_values])))

\* lines 21-34: zscore_history in insertion order, or Raised
IsPairEntry(e) == e # Skipped
ZscoreHistory(data) ==
    Let([n \in DOMAIN Combinations2(data.tickers) |->
            PairScores(data, data.tickers[Combinations2(data.tickers)[n][1]],
                             data.tickers[Combinations2(data.tickers)[n][2]])],
        LAMBDA all :
            IF \E n \in DOMAIN all : all[n] = Raised THEN Raised
            ELSE List(SelectSeq(all, IsPairEntry)))

\* latest_scores[(left, right)], for a pair that is a key
HasPair(history, left, right) ==
    \E n \in DOMAIN history : history[n].left = left /\ history[n].right = right
LatestScore(history, left, right) ==
    LET e == history[CHOOSE n \in DOMAIN history :
                        history[n].left = left /\ history[n].right = right]
    IN e.z_values[Len(e.z_values)]

\* mutant of MatrixEntry: the mirrored entry is copied without the minus sign
MatrixEntryMirrored(history, left, right) ==
    IF left = right THEN ZeroScore
    ELSE IF HasPair(history, left, right) THEN LatestScore(history, left, right)
    ELSE IF HasPair(history, right, left) THEN LatestScore(history, right, left)
    ELSE ZeroScore

\* lines 43-51
MatrixEntry(history, left, right) ==
    IF left = right THEN ZeroScore
    ELSE IF HasPair(history, left, right) THEN LatestScore(history, left, right)
    ELSE IF HasPair(history, right, left) THEN Neg(LatestScore(history, right, left))
    ELSE ZeroScore

\* mutant of MostExtreme: the key of max is the score, not its absolute value
MostExtremeSigned(history) ==
    CHOOSE n \in DOMAIN history :
        LET z(m) == history[m].z_values[Len(history[m].z_values)]
        IN /\ \A m \in DOMAIN history : ~ScoreLess(z(n), z(m))
           /\ \A m \in 1..(n - 1) : ScoreLess(z(m), z(n))

\* line 56: max(latest_scores.items(), key=abs of the score), the first of the
\* largest
MostExtreme(history) ==
    CHOOSE n \in DOMAIN history :
        LET z(m) == history[m].z_values[Len(history[m].z_values)]
        IN /\ \A m \in DOMAIN history : ~AbsLess(z(n), z(m))
           /\ \A m \in 1..(n - 1) : AbsLess(z(m), z(n))

\* plot_heatmap and figure_to_payload: the figure and the payload stored for it
PlotHeatmap(scores, labels, title) ==
    [k |-> "heatmap", matrix |-> scores, labels |-> labels, title |-> title]
FigureToPayload(figure) == [k |-> "payload", figure |-> figure]

\* lines 67-70
DivergenceSummary(left, right, z) ==
    [k |-> "divergence", left |-> left, right |-> right, z |-> FormatScore(z)]

\* mutant of TooFewTickers: and in place of or
TooFewTickersAnd(data) == Len(data.tickers) < 2 /\ data.dates = <<>>

\* line 14
TooFewTickers(data) == Len(data.tickers) < 2 \/ data.dates = <<>>

\* lines 43-75, latest_scores not empty
ZscoreReport(data, history) ==
    Let(history[MostExtreme(history)],
        LAMBDA extreme :
            ToolResult(<<"z", "s", "c", "o", "r", "e">>,
                DivergenceSummary(extreme.left, extreme.right,
                                  extreme.z_values[Len(extreme.z_values)]),
                <<FigureToPayload(PlotHeatmap(
                      [i \in DOMAIN data.tickers |->
                          [j \in DOMAIN data.tickers |->
                              MatrixEntry(history, data.tickers[i], data.tickers[j])]],
                      data.tickers, "Latest Pairwise Z-Scores")),
                  FigureToPayload(PlotLines(
                      [i \in DOMAIN data.dates |-> IsoStr(data.dates[i])],
                      <<(<<(<<extreme.left, "-", extreme.right>>), extreme.z_values>>)>>,
                      "Spread Z-Score Over Time", "Z-Score"))>>))

\* zscore.py 12-76
AnalyzeZscore(data) ==
    IF TooFewTickers(data)
    THEN ToolResult(<<"z", "s", "c", "o", "r", "e">>,
            Text("Z-score analysis requires at least two tickers."), <<>>)
    ELSE Let(ZscoreHistory(data),
             LAMBDA history :
                IF history = Raised THEN Raised
                ELSE IF history.items = <<>>
                THEN ToolResult(<<"z", "s", "c", "o", "r", "e">>,
                        Text("Unable to compute z-scores for the provided data."), <<>>)
                ELSE ZscoreReport(data, history.items))

(***************************** analytics dispatch ***************************)
\* the default windows of analyze_sma
SmaWindows == <<20, 50>>

\* sma.py 27-49 for one ticker: the image and the summary sentence
SmaOfTicker(data, windows, ticker) ==
    Let(<<SimpleMovingAverage(data.series[ticker], windows[1]),
          SimpleMovingAverage(data.series[ticker], windows[2])>>,
        LAMBDA ma :
            IF ma[1] = Raised \/ ma[2] = Raised THEN Raised
            ELSE IF ma[1].items = <<>> \/ ma[2].items = <<>> THEN Raised
            ELSE [image |-> FigureToUrl(PlotLines(
                                [i \in DOMAIN data.dates |-> IsoStr(data.dates[i])],
                                <<(<<(<<ticker, " Close">>), data.series[ticker]>>),
                                  (<<(<<"SMA ", windows[1]>>), ma[1].items>>),
                                  (<<(<<"SMA ", windows[2]>>), ma[2].items>>)>>,
                                <<ticker, " Close with SMAs">>, "Price")),
                  sentence |->
                     [ticker |-> ticker,
                      crossover |->
                        IF FLess(Last(ma[2].items), Last(ma[1].items)) THEN "bullish"
                        ELSE IF FLess(Last(ma[1].items), Last(ma[2].items)) THEN "bearish"
                        ELSE "aligned"]])

\* sma.py 19-52
AnalyzeSma(data, windows) ==
    IF IsEmpty(data)
    THEN ToolResult(<<"s", "m", "a">>,
            Text("No price data provided for moving averages."), <<>>)
    ELSE Let([i \in DOMAIN data.tickers |-> SmaOfTicker(data, windows, data.tickers[i])],
             LAMBDA per :
                IF \E i \in DOMAIN per : per[i] = Raised THEN Raised
                ELSE ToolResult(<<"s", "m", "a">>,
                        Join(" ", [i \in DOMAIN per |-> per[i].sentence]),
                        [i \in DOMAIN per |-> per[i].image]))

\* the function _tool_map holds for a name, applied to the matrix
CallTool(name, data) ==
    IF name = ToolMap[1] THEN AnalyzeZscore(data)
    ELSE IF name = ToolMap[2] THEN AnalyzeRsi(data, RsiPeriod)
    ELSE AnalyzeSma(data, SmaWindows)

\* mutant of ResolveTools: the whole registry is run whatever the plan names
ResolveToolsAll(names) == ToolMap

\* agent.py 311-319 for a list of names: the names of the tools resolved
ResolveTools(names) ==
    IF names = <<>> THEN ToolMap
    ELSE LET IsRegistered(name) == InSeq(name, ToolMap)
             resolved == SelectSeq(names, IsRegistered)
         IN IF resolved = <<>> THEN ToolMap ELSE resolved

\* agent.py 440: _resolve_tools(plan.tools if plan else None)
ToolSelection(given) ==
    IF given = NoneVal THEN ToolMap ELSE ResolveTools(given.tools)

\* d[key] = value on a dict kept as its items in insertion order
DictSet(d, key, value) ==
    IF \E i \in DOMAIN d : d[i][1] = key
    THEN [i \in DOMAIN d |-> IF d[i][1] = key THEN <<key, value>> ELSE d[i]]
    ELSE Append(d, <<key, value>>)
DictKeys(d) == [i \in DOMAIN d |-> d[i][1]]

\* what the summary call can come to: no client was built, the call raises,
\* or the reply carries a text
CallFails == [k |-> "fails"]
Prose(text) == [k |-> "prose", text |-> text]

\* mutant of GenerateSummaryWithLLM: the text is returned as it came
GenerateSummaryUnstripped(reply) ==
    IF reply = NoClient \/ reply = CallFails THEN NoneVal
    ELSE IF reply.text = <<>> THEN NoneVal
    ELSE Prose(reply.text)

\* agent.py 401-431: the stripped text of the reply, or None
GenerateSummaryWithLLM(reply) ==
    IF reply = NoClient \/ reply = CallFails THEN NoneVal
    ELSE IF Strip(reply.text) = <<>> THEN NoneVal
    ELSE Prose(Strip(reply.text))

AgentResult(summary, tool_summaries, tool_images) ==
    [k |-> "agent_result", summary |-> summary, tool_summaries |-> tool_summaries,
     tool_images |-> tool_images]

\* agent.py 441-445 from the n-th selected tool on: Raised when a tool raises,
\* else the tools called and the two dicts
RECURSIVE ToolLoop(_, _, _, _, _, _)
ToolLoop(selection, n, data, called, tool_summaries, tool_images) ==
    IF n > Len(selection)
    THEN [k |-> "ran", called |-> called, tool_summaries |-> tool_summaries,
          tool_images |-> tool_images]
    ELSE Let(CallTool(selection[n], data),
             LAMBDA result :
                IF result = Raised THEN [k |-> "raise", called |-> Append(called, selection[n])]
                ELSE ToolLoop(selection, n + 1, data, Append(called, selection[n]),
                              DictSet(tool_summaries, result.name, result.summary),
                              DictSet(tool_images, result.name, result.images)))

\* agent.py 447-451
ComposeSummary(reply, aggregate_notes) ==
    Let(GenerateSummaryWithLLM(reply),
        LAMBDA summary :
            IF summary # NoneVal THEN summary
            ELSE IF aggregate_notes = <<>>
            THEN Text("No insights generated. (LLM unavailable)")
            ELSE Join(" ", [i \in DOMAIN aggregate_notes |->
                               <<UpperStr(aggregate_notes[i][1]), ": ",
                                 aggregate_notes[i][2]>>]))

\* agent.py 433-452: the tools called, and the AgentResult or Raised
RunAnalysis(data, given, reply) ==
    Let(ToolLoop(ToolSelection(given), 1, data, <<>>, <<>>, <<>>),
        LAMBDA ran :
            IF ran.k = "raise" THEN [called |-> ran.called, result |-> Raised]
            ELSE [called |-> ran.called,
                  result |-> AgentResult(ComposeSummary(reply, ran.tool_summaries),
                                         ran.tool_summaries, ran.tool_images)])

(***************************** moving average ******************************)
\* the price lists of at most maxLen values
SeriesOf(maxLen) == UNION {[1..n -> 0..MaxPrice] : n \in 0..maxLen}

InitSma ==
    /\ toolData \in SeriesOf(MaxSeries)
    /\ toolWindow \in 0..MaxWindow
    /\ toolPc = "input"
    /\ toolResult = NoneVal
    /\ CleanIdle
    /\ MonthsIdle
    /\ NumeralIdle
    /\ PlanIdle
    /\ PipeIdle

\* _simple_moving_average(values, window)
CallSimpleMovingAverage ==
    /\ toolPc = "input"
    /\ \E r \in {SimpleMovingAverage(toolData, toolWindow)} :
        /\ toolResult' = r
        /\ toolPc' = IF r = Raised THEN "raised" ELSE "returned"
    /\ UNCHANGED <<toolData, toolWindow>>
    /\ UNCHANGED <<cleanVars, monthsVars, planVars, pipeVars, numeralVars>>

NextSma == CallSimpleMovingAverage
SpecSma == InitSma /\ [][NextSma]_vars

(***************************** RSI tool *************************************)
ToolSymbols == <<"AAA", "BBB", "CCC">>

\* the rectangular matrices of at most maxTickers symbols over at most
\* maxDates dates
Matrices(maxTickers, maxDates, prices) ==
    UNION {UNION {{PriceMatrix([i \in 1..n |-> i], SubSeq(ToolSymbols, 1, c), series) :
                      series \in [{ToolSymbols[i] : i \in 1..c} -> [1..n -> prices]]} :
                  n \in 0..maxDates} :
           c \in 0..maxTickers}

InitRsi ==
    /\ toolData \in Matrices(1, MaxSeries, 0..MaxPrice)
    /\ toolWindow = 0
    /\ toolPc = "input"
    /\ toolResult = NoneVal
    /\ CleanIdle
    /\ MonthsIdle
    /\ NumeralIdle
    /\ PlanIdle
    /\ PipeIdle

\* analyze_rsi(data)
CallAnalyzeRsi ==
    /\ toolPc = "input"
    /\ \E r \in {AnalyzeRsi(toolData, RsiPeriod)} :
        /\ toolResult' = r
        /\ toolPc' = IF r = Raised THEN "raised" ELSE "returned"
    /\ UNCHANGED <<toolData, toolWindow>>
    /\ UNCHANGED <<cleanVars, monthsVars, planVars, pipeVars, numeralVars>>

NextRsi == CallAnalyzeRsi
SpecRsi == InitRsi /\ [][NextRsi]_vars

(***************************** z-score tool *********************************)
\* the prices of the matrices given to analyze_zscore
ZscorePrices == {0, 1}

InitZscore ==
    /\ toolData \in Matrices(Len(ToolSymbols), MaxDates, ZscorePrices)
    /\ toolWindow = 0
    /\ toolPc = "input"
    /\ toolResult = NoneVal
    /\ CleanIdle
    /\ MonthsIdle
    /\ NumeralIdle
    /\ PlanIdle
    /\ PipeIdle

\* analyze_zscore(data)
CallAnalyzeZscore ==
    /\ toolPc = "input"
    /\ \E r \in {AnalyzeZscore(toolData)} :
        /\ toolResult' = r
        /\ toolPc' = IF r = Raised THEN "raised" ELSE "returned"
    /\ UNCHANGED <<toolData, toolWindow>>
    /\ UNCHANGED <<cleanVars, monthsVars, planVars, pipeVars, numeralVars>>

NextZscore == CallAnalyzeZscore
SpecZscore == InitZscore /\ [][NextZscore]_vars

(***************************** dispatch *************************************)
ToolCall(name) == [fn |-> "tool", name |-> name]

\* the lists of at most maxLen different names
RECURSIVE NameLists(_, _)
NameLists(names, maxLen) ==
    IF maxLen = 0 THEN {<<>>}
    ELSE {<<>>} \cup UNION {{<<n>> \o rest : rest \in NameLists(names \ {n}, maxLen - 1)} :
                             n \in names}

\* the plans given to run_analysis: none, or one naming registry tools and a
\* name the registry does not hold
DispatchPlans ==
    {NoneVal} \cup
    {QueryPlan(tools, <<>>, NoneVal, NoneVal) :
        tools \in NameLists(Range(ToolMap) \cup {<<"m", "a", "c", "d">>}, MaxPlanTools)}

DispatchMatrices == Matrices(2, 2, ZscorePrices)

Commentaries ==
    {NoClient, CallFails, Prose(<<>>), Prose(<<" ">>), Prose(<<" ", "o", "k", " ">>)}

InitDispatch ==
    /\ plan \in DispatchPlans
    /\ toolData \in DispatchMatrices
    /\ servePc = "input"
    /\ clock = NoneVal
    /\ request = <<>>
    /\ phrases = <<>>
    /\ planPc = "idle"
    /\ heuristicPlan = NoneVal
    /\ answer = NoneVal
    /\ llmPlan = NoneVal
    /\ toolWindow = 0
    /\ toolPc = "idle"
    /\ toolResult = NoneVal
    /\ form = NoneVal
    /\ upload = NoneVal
    /\ marketData = <<>>
    /\ commentary = NoneVal
    /\ calls = <<>>
    /\ agentResult = NoneVal
    /\ response = NoneVal
    /\ CleanIdle
    /\ MonthsIdle
    /\ NumeralIdle

\* AgentService.run_analysis(query, data, plan)
CallRunAnalysis ==
    /\ servePc = "input"
    /\ \E reply \in Commentaries : \E out \in {RunAnalysis(toolData, plan, reply)} :
        /\ commentary' = reply
        /\ calls' = [i \in DOMAIN out.called |-> ToolCall(out.called[i])]
        /\ agentResult' = out.result
        /\ servePc' = IF out.result = Raised THEN "raised" ELSE "returned"
    /\ UNCHANGED <<form, upload, marketData, response>>
    /\ UNCHANGED <<cleanVars, monthsVars, planVars, toolVars, numeralVars>>

NextDispatch == CallRunAnalysis
SpecDispatch == InitDispatch /\ [][NextDispatch]_vars

(***************************** request pipeline *****************************)
\* Part 4: app/routers/analysis.py, with parse_uploaded_prices of
\* app/services/preprocess.py and load_market_data of app/services/sources.py.

\* str.split(sep) for a one-character separator
RECURSIVE SplitOn(_, _)
SplitOn(s, sep) ==
    IF \A i \in 1..Len(s) : s[i] # sep THEN <<s>>
    ELSE LET at == CHOOSE i \in 1..Len(s) :
                       s[i] = sep /\ \A j \in 1..(i - 1) : s[j] # sep
         IN <<SubSeq(s, 1, at - 1)>> \o SplitOn(SubSeq(s, at + 1, Len(s)), sep)

\* routers/analysis.py 55-60: the symbols of the tickers field, or None
ParseTickers(tickers) ==
    IF tickers = NoneVal \/ tickers.s = <<>> THEN NoneVal
    ELSE LET parts == SplitOn(tickers.s, ",")
             symbols == [i \in DOMAIN parts |-> UpperStr(Strip(parts[i]))]
             parsed_tickers == SelectSeq(symbols, LAMBDA symbol : symbol # <<>>)
         IN IF parsed_tickers = <<>> THEN NoneVal ELSE parsed_tickers

HTTPException(status_code, detail) ==
    [k |-> "http_exception", status_code |-> status_code, detail |-> detail]

\* routers/analysis.py 62-71: None, the date, or the 422 raised for a text
\* that is no ISO date
FormDate(value, field_name) ==
    IF value = NoneVal \/ value.s = <<>> THEN NoneVal
    ELSE IF FromIsoFormat(value.s) = NoneVal
    THEN HTTPException(422, Join("", <<"Invalid ", field_name,
                                       " format. Expected YYYY-MM-DD.">>))
    ELSE FromIsoFormat(value.s)

\* the form of a request: the fields beside the query and the file
Form(tickers, start_date, end_date) ==
    [k |-> "form", tickers |-> tickers, start_date |-> start_date,
     end_date |-> end_date]

\* AnalysisRequest, routers/analysis.py 16-26
AnalysisRequest(query, tickers, start_date, end_date) ==
    [k |-> "request", query |-> query, tickers |-> tickers,
     start_date |-> start_date, end_date |-> end_date]

\* AnalysisResponse, routers/analysis.py 29-32
AnalysisResponse(analysis, tool_summaries, images) ==
    [k |-> "response", analysis |-> analysis, tool_summaries |-> tool_summaries,
     images |-> images]

(***************************** uploaded files *******************************)
\* An uploaded file is its name and the table csv reads from its bytes: rows
\* of cells, the first row the header, no row for empty bytes. A cell is a
\* text: Str of a word, IsoStr of an ISO date, NumStr of a number.
Upload(filename, table) == [k |-> "file", filename |-> filename, table |-> table]

\* the spelling of a symbol, and the symbol a spelling names
Chars(s) ==
    CASE s = "AAA" -> <<"A", "A", "A">>
      [] s = "AAPL" -> <<"A", "A", "P", "L">>
      [] s = "BBB" -> <<"B", "B", "B">>
Word(chars) == CHOOSE s \in Range(SortedSymbols) : Chars(s) = chars

\* str.lower on the words of the model
Lower(s) ==
    CASE s = "Date" -> "date"
      [] s = "Ticker" -> "ticker"
      [] s = "Close" -> "close"
      [] s = "AAA" -> "aaa"
      [] s = "BBB" -> "bbb"
      [] OTHER -> s
CellLower(cell) == IF cell.k = "str" THEN Str(Lower(cell.s)) ELSE cell
CellUpper(cell) == IF cell.k = "str" THEN Str(Upper(cell.s)) ELSE cell

\* preprocess.py 80-83: the letters and digits before the last dot, in upper
\* case, or None
DeriveTickerFromFilename(filename) ==
    LET dots == {i \in 1..Len(filename) : filename[i] = "."}
        last == IF dots = {} THEN Len(filename) + 1
                ELSE CHOOSE i \in dots : \A j \in dots : j <= i
        stem == SubSeq(filename, 1, last - 1)
        candidate == SelectSeq(stem, LAMBDA c : IsUpper(c) \/ IsLower(c) \/ IsDigit(c))
    IN IF candidate = <<>> THEN NoneVal ELSE Str(Word(UpperStr(candidate)))

\* preprocess.py 182-189: the first non-blank fallback ticker, else the
\* ticker of the file name
FallbackSymbol(filename, fallback_tickers) ==
    LET kept == SelectSeq(fallback_tickers, LAMBDA symbol : Strip(symbol) # <<>>)
    IN IF kept # <<>> THEN Str(Word(UpperStr(Strip(kept[1]))))
       ELSE IF filename # <<>> THEN DeriveTickerFromFilename(filename)
       ELSE NoneVal

\* row.get(key) of the dict csv.DictReader makes of a row under the header
RowGet(header, row, key) ==
    LET at == {i \in 1..Len(header) : header[i] = Str(key)}
        last == CHOOSE i \in at : \A j \in at : j <= i
    IN IF at = {} THEN NoneVal
       ELSE IF last > Len(row) THEN NoneVal
       ELSE row[last]

\* a record as parse_uploaded_prices and load_market_data write it
Record(date_value, ticker_value, close_value) ==
    Row(date_value, NoneVal, ticker_value, NoneVal, close_value, NoneVal)

\* preprocess.py 192-209: the record of one row, or Skip
DictRecord(header, row, fallback_symbol) ==
    LET date_value == PyOr(RowGet(header, row, "Date"), RowGet(header, row, "date"))
        ticker_value ==
            PyOr(PyOr(PyOr(PyOr(RowGet(header, row, "Ticker"),
                                RowGet(header, row, "ticker")),
                           RowGet(header, row, "Symbol")),
                      RowGet(header, row, "symbol")),
                 fallback_symbol)
        close_value == PyOr(PyOr(RowGet(header, row, "Close"),
                                 RowGet(header, row, "close")),
                            RowGet(header, row, "Adj Close"))
    IN IF ~Truthy(date_value) \/ ~Truthy(ticker_value)
          \/ close_value = NoneVal \/ close_value = Str("")
       THEN Skip
       ELSE Record(date_value, CellUpper(ticker_value), close_value)

\* the records a loop keeps, in order
Kept(outcomes) == SelectSeq(outcomes, LAMBDA r : r # Skip)

\* preprocess.py 190-209
DictRecords(table, fallback_symbol) ==
    IF table = <<>> THEN <<>>
    ELSE Kept([i \in 1..(Len(table) - 1) |->
                  DictRecord(table[1], table[i + 1], fallback_symbol)])

\* the first non-empty cell of cells, or None
FirstCell(cells) ==
    LET full == {i \in 1..Len(cells) : cells[i] # Str("")}
    IN IF full = {} THEN NoneVal
       ELSE cells[CHOOSE i \in full : \A j \in full : i <= j]

Rest(cells) == SubSeq(cells, 2, Len(cells))

CloseLabels == {"close", "adj close", "price", "close price", "last"}

\* preprocess.py 86-158: the layout with a header row, a row of tickers and
\* rows of a date and prices
ParseMatrixLayout(rows, fallback_symbol) ==
    LET normalized_rows ==
            SelectSeq(rows, LAMBDA row : \E i \in 1..Len(row) : row[i] # Str(""))
        header_row == normalized_rows[1]
        ticker_row == IF Len(normalized_rows) > 1 THEN normalized_rows[2] ELSE <<>>
        date_rows == {i \in 1..Len(normalized_rows) :
                         CellLower(normalized_rows[i][1]) = Str("date")}
        date_row_index == CHOOSE i \in date_rows : \A j \in date_rows : i <= j
        labelled == {i \in 2..Len(header_row) :
                        /\ header_row[i].k = "str"
                        /\ Lower(header_row[i].s) \in CloseLabels}
        close_index == IF labelled # {} THEN CHOOSE i \in labelled : \A j \in labelled : i <= j
                       ELSE IF Len(header_row) > 1 THEN 2
                       ELSE 0
        at_close == IF close_index # 0 /\ Len(ticker_row) >= close_index
                       /\ ticker_row[close_index] # Str("")
                    THEN CellUpper(ticker_row[close_index])
                    ELSE NoneVal
        derived_ticker ==
            IF Truthy(fallback_symbol) THEN fallback_symbol
            ELSE IF at_close # NoneVal THEN at_close
            ELSE IF FirstCell(Rest(ticker_row)) # NoneVal
            THEN CellUpper(FirstCell(Rest(ticker_row)))
            ELSE NoneVal
        CloseOf(row) ==
            IF close_index # 0 /\ Len(row) >= close_index /\ row[close_index] # Str("")
            THEN row[close_index]
            ELSE FirstCell(Rest(row))
        Parsed(row) ==
            IF row[1] = Str("") \/ CloseOf(row) = NoneVal THEN Skip
            ELSE Record(row[1], derived_ticker, CloseOf(row))
    IN IF normalized_rows = <<>> THEN <<>>
       ELSE IF date_rows = {} \/ date_row_index >= Len(normalized_rows) THEN <<>>
       ELSE IF derived_ticker = NoneVal THEN <<>>
       ELSE Kept([i \in 1..(Len(normalized_rows) - date_row_index) |->
                     Parsed(normalized_rows[date_row_index + i])])

\* preprocess.py 161-217 for a file that is no JSON document: the records of
\* the header layout, else those of the matrix layout
ParseUploadedPrices(table, filename, fallback_tickers) ==
    IF table = <<>> THEN <<>>
    ELSE LET fallback_symbol == FallbackSymbol(filename, fallback_tickers)
             dict_records == DictRecords(table, fallback_symbol)
         IN IF dict_records # <<>> THEN dict_records
            ELSE ParseMatrixLayout(table, fallback_symbol)

(***************************** market data **********************************)
\* the closes the download carries
MarketPrices == {1, 2}

\* sources.py 12-48: what the download can come to for the tickers asked,
\* symbol after symbol: for each symbol the closes of its first n days, n from
\* 0 (a symbol the download does not carry) to MaxMarketDays
MarketSeries(symbol) ==
    UNION {{[i \in 1..n |-> Record(DateVal(i), Str(Word(symbol)), Num(close[i]))] :
               close \in [1..n -> MarketPrices]} :
           n \in 0..MaxMarketDays}

RECURSIVE MarketResults(_)
MarketResults(symbols) ==
    IF symbols = <<>> THEN {<<>>}
    ELSE UNION {{first \o rest : rest \in MarketResults(Rest(symbols))} :
                   first \in MarketSeries(symbols[1])}

\* sources.py 17
MarketSymbols(tickers) == [i \in DOMAIN tickers |-> UpperStr(tickers[i])]

(***************************** the endpoint *********************************)
\* the calls the endpoint makes, in order
InterpretCall(query) == [fn |-> "interpret_query", query |-> query]
UploadCall(filename, fallback_tickers) ==
    [fn |-> "parse_uploaded_prices", filename |-> filename,
     fallback_tickers |-> fallback_tickers]
MarketCall(tickers, start, end) ==
    [fn |-> "load_market_data", tickers |-> tickers, start |-> start, end |-> end]
CleanCall == [fn |-> "clean_stock_data"]

\* what the endpoint comes to: the calls made, the records gathered, the
\* matrix given to the tools, the agent's result, and the response returned
\* or the exception raised
Served(made, raw_records, cleaned, data, result, answered) ==
    [calls |-> made, raw_records |-> raw_records, cleaned |-> cleaned,
     data |-> data, result |-> result, response |-> answered]

\* preprocess.py 72-77: the PriceMatrix of the aligned series
AsPriceMatrix(m) ==
    PriceMatrix(m.dates,
                SelectSeq(SortedSymbols, LAMBDA t : t \in DOMAIN m.series),
                [t \in DOMAIN m.series |->
                    [i \in 1..Len(m.dates) |-> m.series[t][i].v]])

\* routers/analysis.py 73-79: the request and the plan, or the exception
\* raised on the way
Accept(query, fm, reply, today) ==
    Let(FormDate(fm.start_date, "start_date"), LAMBDA start :
    IF start.k = "http_exception" THEN [k |-> "rejected", raised |-> start]
    ELSE
    Let(FormDate(fm.end_date, "end_date"), LAMBDA end :
    IF end.k = "http_exception" THEN [k |-> "rejected", raised |-> end]
    ELSE
    Let(InterpretQuery(query, reply, today), LAMBDA out :
        [k |-> "accepted",
         req |-> AnalysisRequest(query, ParseTickers(fm.tickers), start, end),
         planned |-> out])))

\* routers/analysis.py 82-85
FallbackTickers(req, given) ==
    IF req.tickers # NoneVal THEN req.tickers ELSE given.tickers

\* routers/analysis.py 86: a file with a name was sent
HasUpload(up) == up # NoneVal /\ up.filename # <<>>

\* routers/analysis.py 86-94
UploadedRecords(up, req, given) ==
    IF HasUpload(up)
    THEN ParseUploadedPrices(up.table, up.filename, FallbackTickers(req, given))
    ELSE <<>>

\* routers/analysis.py 95
DerivedTickers(req, given) ==
    IF req.tickers # NoneVal THEN req.tickers ELSE given.tickers

\* routers/analysis.py 97
DerivedEnd(req, given, today) ==
    IF req.end_date # NoneVal THEN req.end_date
    ELSE IF given.end_date # NoneVal THEN given.end_date
    ELSE today

\* routers/analysis.py 98-100: the start, Raised when default_lookback raises
DerivedStart(req, given, derived_end) ==
    IF req.start_date # NoneVal THEN req.start_date
    ELSE IF given.start_date # NoneVal THEN given.start_date
    ELSE MonthsAgo(derived_end, 12)

\* mutant of NeedsMarketData: the tickers alone decide, whatever the upload gave
NeedsMarketDataForTickers(raw_records, derived_tickers) ==
    derived_tickers # <<>>

\* routers/analysis.py 96
NeedsMarketData(raw_records, derived_tickers) ==
    raw_records = <<>> /\ derived_tickers # <<>>

\* routers/analysis.py 108
NoUsableInput(raw_records) == raw_records = <<>>

\* routers/analysis.py 114-124: the records cleaned and analysed
Analyse(made, raw_records, given, note) ==
    Let(CleanStockData(raw_records), LAMBDA clean :
    IF clean.raised
    THEN Served(Append(made, CleanCall), raw_records, clean, NoneVal, NoneVal, Raised)
    ELSE
    Let(AsPriceMatrix(clean.matrix), LAMBDA cleaned :
    IF IsEmpty(cleaned)
    THEN Served(Append(made, CleanCall), raw_records, clean, NoneVal, NoneVal,
                HTTPException(422, Text("Unable to clean the provided stock data")))
    ELSE
    Let(RunAnalysis(cleaned, given, note), LAMBDA ran :
        Served(Append(made, CleanCall)
                   \o [i \in DOMAIN ran.called |-> ToolCall(ran.called[i])],
               raw_records, clean, cleaned, ran.result,
               IF ran.result = Raised THEN Raised
               ELSE AnalysisResponse(ran.result.summary, ran.result.tool_summaries,
                                     ran.result.tool_images)))))

\* routers/analysis.py 80-124 for the request and the plan: market is what
\* load_market_data returns if it is called, note what the summary call comes
\* to if it is made
Serve(up, req, given, today, market, note) ==
    Let(UploadedRecords(up, req, given), LAMBDA uploaded :
    Let(<<InterpretCall(req.query)>>
            \o (IF HasUpload(up)
                THEN <<UploadCall(up.filename, FallbackTickers(req, given))>>
                ELSE <<>>),
        LAMBDA made :
    IF NeedsMarketData(uploaded, DerivedTickers(req, given))
    THEN Let(DerivedEnd(req, given, today), LAMBDA derived_end :
         Let(DerivedStart(req, given, derived_end), LAMBDA derived_start :
         IF derived_start = Raised
         THEN Served(made, uploaded, NoneVal, NoneVal, NoneVal, Raised)
         ELSE
         Let(Append(made, MarketCall(DerivedTickers(req, given), derived_start,
                                     derived_end)),
             LAMBDA asked :
         IF market = <<>>
         THEN Served(asked, market, NoneVal, NoneVal, NoneVal,
                     HTTPException(404,
                         Text("No market data available for the requested tickers")))
         ELSE Analyse(asked, market, given, note))))
    ELSE IF NoUsableInput(uploaded)
    THEN Served(made, uploaded, NoneVal, NoneVal, NoneVal,
                HTTPException(400,
                    Text("Provide either tickers or an uploaded price file")))
    ELSE Analyse(made, uploaded, given, note)))

\* routers/analysis.py 39-124: the endpoint for the planner answering reply
Respond(a, up, today, market, note) ==
    IF a.k = "rejected"
    THEN Served(<<>>, <<>>, NoneVal, NoneVal, NoneVal, a.raised)
    ELSE IF a.planned.raised
    THEN Served(<<InterpretCall(a.req.query)>>, <<>>, NoneVal, NoneVal, NoneVal, Raised)
    ELSE Serve(up, a.req, a.planned.plan, today, market, note)

\* what load_market_data can return to the request, <<>> where it is not
\* called
MarketChoices(a, up) ==
    IF a.k = "rejected" THEN {<<>>}
    ELSE IF a.planned.raised THEN {<<>>}
    ELSE IF NeedsMarketData(UploadedRecords(up, a.req, a.planned.plan),
                            DerivedTickers(a.req, a.planned.plan))
    THEN MarketResults(MarketSymbols(DerivedTickers(a.req, a.planned.plan)))
    ELSE {<<>>}

(***************************** requests *************************************)
\* the queries sent: no ticker, one ticker, two tickers
Queries ==
    {<<"s", "m", "a">>,
     <<"z", "s", "c", "o", "r", "e">>,
     <<"A", "A", "A", " ", "r", "s", "i">>,
     <<"B", "B", "B", " ", "A", "A", "A">>}

FormTickers ==
    {NoneVal, Str(<<" ", ",", " ">>), Str(<<"b", "b", "b", ",", " ", "a", "a", "a">>)}
FormStarts ==
    {Str(<<>>), Str(<<"2", "0", "2", "4", "-", "0", "1", "-", "1", "5">>),
     Str(<<"J", "u", "n", "e">>)}
FormEnds == {NoneVal, Str(<<"2", "0", "2", "4", "-", "0", "6", "-", "3", "0">>)}
Forms ==
    {Form(tickers, start_date, end_date) :
        tickers \in FormTickers, start_date \in FormStarts, end_date \in FormEnds}

\* the rows of a file with a ticker column and of one without
TickerRows ==
    {<<IsoStr(1), Str("AAA"), NumStr(1)>>,
     <<IsoStr(2), Str("bbb"), NumStr(2)>>,
     <<IsoStr(2), Str(""), NumStr(0)>>,
     <<Str("n/a"), Str("AAA"), NumStr(1)>>,
     <<IsoStr(1), Str("BBB"), Str("")>>}
PriceRows ==
    {<<IsoStr(1), NumStr(1)>>, <<IsoStr(2), NumStr(2)>>, <<Str(""), NumStr(1)>>}

\* the tables of a header and at most MaxUploadRows of the rows
TablesOf(header, rows) ==
    UNION {{<<header>> \o body : body \in [1..n -> rows]} : n \in 0..MaxUploadRows}

\* no file, a file without a name, an empty file, a file of prices
Uploads ==
    {NoneVal,
     Upload(<<>>, <<<<Str("Date"), Str("Close")>>, <<IsoStr(1), NumStr(1)>>>>),
     Upload(<<"a", "a", "a", ".", "c", "s", "v">>, <<>>)}
    \cup {Upload(<<"a", "a", "a", ".", "c", "s", "v">>, table) :
             table \in TablesOf(<<Str("Date"), Str("Ticker"), Str("Close")>>, TickerRows)
                       \cup TablesOf(<<Str("date"), Str("close")>>, PriceRows)}

\* what the planner answers a request: nothing, JSON that is no object, an
\* object naming a ticker and an end date
PlannerReplies ==
    {NoClient, Json(NoneVal),
     Json(Payload(NoneVal, List(<<Str(<<"B", "B", "B">>)>>), NoneVal,
                  Str(<<"2", "0", "2", "4", "-", "0", "6", "-", "3", "0">>), NoneVal))}

\* what the summary call comes to, made with the client that answered the
\* planner: no client, or a call that fails or carries a text
Notes(reply) ==
    IF reply = NoClient THEN {NoClient} ELSE {CallFails, Prose(<<"o", "k">>)}

\* a request of the test suite: a ticker, a period and a tool, nothing else
PeriodQuery ==
    <<"A", "A", "P", "L", " ", "p", "a", "s", "t", " ", "s", "i", "x", " ",
      "m", "o", "n", "t", "h", "s", " ", "s", "m", "a">>

InitRequest ==
    /\ \/ /\ request \in Queries
          /\ form \in Forms
          /\ upload \in Uploads
       \/ /\ request = PeriodQuery
          /\ form = Form(NoneVal, NoneVal, NoneVal)
          /\ upload = NoneVal
    /\ clock = YMD(2024, 7, 1)
    /\ servePc = "input"
    /\ phrases = <<>>
    /\ planPc = "idle"
    /\ heuristicPlan = NoneVal
    /\ answer = NoneVal
    /\ llmPlan = NoneVal
    /\ plan = NoneVal
    /\ marketData = <<>>
    /\ commentary = NoneVal
    /\ calls = <<>>
    /\ agentResult = NoneVal
    /\ response = NoneVal
    /\ CleanIdle
    /\ MonthsIdle
    /\ NumeralIdle
    /\ ToolIdle

\* POST /: run_analysis(query, tickers, start_date, end_date, upload_file)
PostAnalysis ==
    /\ servePc = "input"
    /\ \E reply \in PlannerReplies : \E a \in {Accept(request, form, reply, clock)} :
       \E market \in MarketChoices(a, upload) : \E note \in Notes(reply) :
       \E out \in {Respond(a, upload, clock, market, note)} :
        /\ answer' = IF a.k = "accepted" THEN reply ELSE NoneVal
        /\ heuristicPlan' = IF a.k = "accepted" THEN a.planned.heuristic_plan ELSE NoneVal
        /\ llmPlan' = IF a.k = "accepted" THEN a.planned.llm_plan ELSE NoneVal
        /\ plan' = IF a.k = "accepted" THEN a.planned.plan ELSE NoneVal
        /\ marketData' = IF \E i \in DOMAIN out.calls : out.calls[i].fn = "load_market_data"
                         THEN market ELSE <<>>
        /\ records' = out.raw_records
        /\ cleanPc' = IF out.cleaned = NoneVal THEN "idle" ELSE "done"
        /\ normalized' = IF out.cleaned = NoneVal THEN <<>> ELSE out.cleaned.normalized
        /\ matrix' = IF out.cleaned = NoneVal THEN EmptyMatrix ELSE out.cleaned.matrix
        /\ toolData' = out.data
        /\ commentary' = IF out.result = NoneVal \/ out.result = Raised THEN NoneVal
                         ELSE note
        /\ calls' = out.calls
        /\ agentResult' = out.result
        /\ response' = out.response
        /\ servePc' = IF out.response = Raised THEN "raised"
                      ELSE IF out.response.k = "http_exception" THEN "failed"
                      ELSE "returned"
    /\ UNCHANGED <<clock, request, phrases, planPc, realigned, form, upload>>
    /\ UNCHANGED <<monthsVars, numeralVars, toolWindow, toolPc, toolResult>>

NextRequest == PostAnalysis
SpecRequest == InitRequest /\ [][NextRequest]_vars
(***************************** claims C1-C5 *********************************)
Returned == cleanPc \in {"done", "realigned"}

\* C1: in the matrix clean_stock_data returns, every symbol's series has exactly
\* len(dates) entries and none of them is None.
C1_Aligned ==
    Returned =>
        \A t \in DOMAIN matrix.series :
            /\ Len(matrix.series[t]) = Len(matrix.dates)
            /\ \A i \in 1..Len(matrix.series[t]) : matrix.series[t][i] # NoneVal

\* a matrix of two symbols that lost a leading date to the trimming
C1_Witness ==
    /\ cleanPc = "done"
    /\ Cardinality(DOMAIN matrix.series) = 2
    /\ Len(matrix.dates) >= 2
    /\ Len(matrix.dates) < Cardinality({normalized[i].date : i \in DOMAIN normalized})

\* C2: re-aligning the records of the returned matrix returns the same matrix.
C2_Idempotent == cleanPc = "realigned" => realigned = matrix

\* the observations of symbol s dated at or before d, as indices of the input
ObsUpTo(s, d) ==
    {i \in DOMAIN normalized : normalized[i].ticker = s /\ normalized[i].date <= d}

\* the most recent of them; of several on that date, the latest in the input
MostRecent(s, d) ==
    CHOOSE i \in ObsUpTo(s, d) :
        \A j \in ObsUpTo(s, d) :
            \/ normalized[j].date < normalized[i].date
            \/ normalized[j].date = normalized[i].date /\ j <= i

\* C3: the value of symbol s at retained date d is the price of s's most recent
\* observation at or before d (the latest in the input among those of one
\* date), and an observed date is retained iff every symbol has an observation
\* at or before it.
C3_CarriedForward ==
    Returned =>
        LET symbols == {normalized[i].ticker : i \in DOMAIN normalized}
            observed == {normalized[i].date : i \in DOMAIN normalized}
        IN /\ DOMAIN matrix.series = symbols
           /\ Range(matrix.dates) =
                  {d \in observed : \A s \in symbols : ObsUpTo(s, d) # {}}
           /\ \A i, j \in 1..Len(matrix.dates) :
                  i < j => matrix.dates[i] < matrix.dates[j]
           /\ \A s \in symbols : \A i \in 1..Len(matrix.dates) :
                  matrix.series[s][i] = Num(normalized[MostRecent(s, matrix.dates[i])].price)

\* a value carried forward to a date its symbol has no observation on, next to
\* a symbol observed twice on one date with different prices
C3_Witness ==
    /\ cleanPc = "done"
    /\ \E s \in DOMAIN matrix.series : \E i \in 1..Len(matrix.dates) :
           \A n \in DOMAIN normalized :
               ~(normalized[n].ticker = s /\ normalized[n].date = matrix.dates[i])
    /\ \E m, n \in DOMAIN normalized :
           /\ m < n
           /\ normalized[m].ticker = normalized[n].ticker
           /\ normalized[m].date = normalized[n].date
           /\ normalized[m].price # normalized[n].price

\* the field of a record under either spelling of its key
FieldOf(upper, lower) == IF upper # NoneVal THEN upper ELSE lower

\* a record that carries a date (date, timestamp or ISO string), a symbol
\* string and a close that is a number or a numeric string
Carries(row) ==
    /\ row.k = "dict"
    /\ FieldOf(row.Date, row.date).k \in {"date", "datetime", "isostr"}
    /\ FieldOf(row.Ticker, row.ticker).k = "str"
    /\ FieldOf(row.Ticker, row.ticker).s # ""
    /\ FieldOf(row.Close, row.close).k \in {"num", "numstr"}

\* a record with a missing or unparseable date, symbol or price
BadRecord(row) == ~Carries(row)

\* C4: clean_stock_data never raises, and its result is its result on the
\* records left when every bad record is removed.
C4_BadRecordsIgnored ==
    /\ cleanPc # "raised"
    /\ Returned =>
           matrix = CleanStockData(SelectSeq(records, LAMBDA r : ~BadRecord(r))).matrix

\* a batch with a bad record before a good one, aligned to a non-empty matrix
C4_Witness ==
    /\ cleanPc = "done"
    /\ Len(records) >= 2
    /\ BadRecord(records[1])
    /\ ~BadRecord(records[Len(records)])
    /\ matrix.dates # <<>>

\* C5: every record that carries a date, a symbol string and a numeric close
\* contributes (date, upper-cased symbol, price) to the alignment.
C5_OnlyBadDropped ==
    Returned =>
        \A i \in DOMAIN records :
            Carries(records[i]) =>
                Triple(FieldOf(records[i].Date, records[i].date).d,
                       Upper(FieldOf(records[i].Ticker, records[i].ticker).s),
                       FieldOf(records[i].Close, records[i].close).v)
                    \in Range(normalized)

(***************************** claims C6-C7 *********************************)
\* C6: the plan interpret_query returns is merged field by field: each of
\* tools, tickers, start_date and end_date is the assisted plan's value when an
\* assisted plan exists and that value is not empty, the heuristic plan's value
\* otherwise; with no assisted plan it is the heuristic plan itself.
C6_MergedFieldByField ==
    planPc = "returned" =>
        IF llmPlan = NoneVal THEN plan = heuristicPlan
        ELSE /\ plan.tools = IF llmPlan.tools # <<>> THEN llmPlan.tools
                             ELSE heuristicPlan.tools
             /\ plan.tickers = IF llmPlan.tickers # <<>> THEN llmPlan.tickers
                               ELSE heuristicPlan.tickers
             /\ plan.start_date = IF llmPlan.start_date # NoneVal THEN llmPlan.start_date
                                  ELSE heuristicPlan.start_date
             /\ plan.end_date = IF llmPlan.end_date # NoneVal THEN llmPlan.end_date
                                ELSE heuristicPlan.end_date

\* a returned plan that takes its tools and its start from the assisted plan
\* and its tickers and its end from the heuristic plan
C6_Witness ==
    /\ planPc = "returned"
    /\ llmPlan # NoneVal
    /\ llmPlan.tools # <<>> /\ plan.tools = llmPlan.tools /\ plan.tools # heuristicPlan.tools
    /\ llmPlan.tickers = <<>> /\ heuristicPlan.tickers # <<>>
    /\ plan.tickers = heuristicPlan.tickers
    /\ llmPlan.start_date # NoneVal /\ heuristicPlan.start_date # NoneVal
    /\ plan.start_date = llmPlan.start_date /\ plan.start_date # heuristicPlan.start_date
    /\ llmPlan.end_date = NoneVal /\ plan.end_date = heuristicPlan.end_date
    /\ plan.end_date = clock

NoRepeats(s) == \A i, j \in 1..Len(s) : s[i] = s[j] => i = j

\* C7: every plan interpret_query returns, whatever the query and the assisted
\* reply, names only tools of the registry {zscore, rsi, sma}, names no tool
\* twice and no ticker twice.
C7_RegistryToolsNoRepeats ==
    planPc = "returned" =>
        /\ \A i \in 1..Len(plan.tools) :
               plan.tools[i] \in {<<"z", "s", "c", "o", "r", "e">>, <<"r", "s", "i">>, <<"s", "m", "a">>}
        /\ NoRepeats(plan.tools)
        /\ NoRepeats(plan.tickers)

\* a returned plan whose tools and tickers come from a reply that names a tool
\* twice, a ticker twice and a tool the registry does not have
C7_Witness ==
    /\ planPc = "returned"
    /\ answer.k = "json" /\ answer.payload.k = "payload"
    /\ answer.payload.tools.k = "list" /\ ~NoRepeats(answer.payload.tools.items)
    /\ answer.payload.tickers.k = "list" /\ ~NoRepeats(answer.payload.tickers.items)
    /\ plan.tools = llmPlan.tools /\ Len(plan.tools) = 2
    /\ plan.tickers = llmPlan.tickers /\ Len(plan.tickers) = 1

(***************************** claims C8-C9 *********************************)
\* C8: the heuristic plan extractor always succeeds: whatever quantity and unit
\* a relative-time phrase of the query names, and whatever the reference date,
\* _keyword_plan returns a QueryPlan and never raises.
C8_KeywordPlanNeverRaises == planPc # "raised"

\* a phrase of one of the three forms that names a positive count
ValidPhrase(piece) == piece.kind \in {"english", "compact", "chinese"} /\ piece.n >= 1
TypedPhrase == phrases[CHOOSE i \in 1..Len(phrases) : IsPhrase(phrases[i])]
MonthIndex(date) == 12 * date.y + date.m
\* end minus start is n units
DurationIs(start, end, n, unit) ==
    CASE unit = "day" -> ToOrdinal(end) - ToOrdinal(start) = n
      [] unit = "week" -> ToOrdinal(end) - ToOrdinal(start) = 7 * n
      [] unit \in {"month", "year"} ->
             /\ MonthIndex(end) - MonthIndex(start) = IF unit = "year" THEN 12 * n ELSE n
             /\ \/ start.d = end.d
                \/ start.d = DaysInMonth(start.y, start.m) /\ start.d < end.d

\* C9: when the query contains a valid relative-time phrase (English, compact or
\* Chinese, with a positive count), the window _extract_relative_period returns,
\* which _keyword_plan puts in its plan, is (start, today) with start before
\* today and today minus start the duration the phrase names.
C9_ValidPhraseResolved ==
    (/\ planPc = "planned"
     /\ Count(phrases, IsPhrase) = 1
     /\ ValidPhrase(TypedPhrase))
    => /\ heuristicPlan.end_date = clock
       /\ heuristicPlan.start_date # NoneVal
       /\ DateLess(heuristicPlan.start_date, clock)
       /\ DurationIs(heuristicPlan.start_date, clock, TypedPhrase.n, TypedPhrase.unit)

(***************************** claim C11 ************************************)
\* C11: the assisted plan extractor never raises to its caller: whatever the
\* planner answers, _interpret_with_llm returns a plan or no plan and
\* interpret_query returns a plan. A request whose heuristic plan is computed
\* (heuristicPlan is set) therefore never ends raised.
C11_AssistedNeverRaises == ~(planPc = "raised" /\ heuristicPlan # NoneVal)

(***************************** claim C10 ************************************)
\* C10: _months_ago(reference, n), n >= 1, is the date in the month n months
\* earlier whose day is min(reference.day, last day of that month), strictly
\* before the reference (one month before 2024-03-31 is 2024-02-29); n years
\* are 12*n months.
C10_MonthsAgoClamps ==
    periodCall # NoneVal =>
        LET n == IF periodCall.fn = "months_ago" THEN periodCall.n
                 ELSE 12 * periodCall.n
            r == periodResult
        IN /\ r.k = "date"
           /\ r.y * 12 + r.m = reference.y * 12 + reference.m - n
           /\ r.m \in 1..12
           /\ r.d = IF reference.d < DaysInMonth(r.y, r.m) THEN reference.d
                    ELSE DaysInMonth(r.y, r.m)
           /\ DateLess(r, reference)
           /\ (reference = YMD(2024, 3, 31) /\ n = 1) => r = YMD(2024, 2, 29)

\* one month before 2024-03-31, clamped to the leap day
C10_Witness ==
    /\ reference = YMD(2024, 3, 31)
    /\ periodCall = [fn |-> "months_ago", n |-> 1]
    /\ periodResult = YMD(2024, 2, 29)

(***************************** claim C12 ************************************)
\* the sum of values[lo..hi], indices counted from 1
SumOver(values, lo, hi) == Sum(SubSeq(values, lo, hi))

\* C12: for a non-empty series and a window w >= 1, _simple_moving_average
\* returns a series of the same length whose value at index i is the mean of
\* the last min(w, i+1) inputs ending at i; its first value is the first input
\* and every index carries a number.
C12_MovingAverageIsWindowMean ==
    (toolPc # "input" /\ toolData # <<>> /\ toolWindow >= 1) =>
        /\ toolPc = "returned"
        /\ Len(toolResult.items) = Len(toolData)
        /\ \A i \in 1..Len(toolData) :
            LET k == Min(toolWindow, i)
                mean == toolResult.items[i]
            IN /\ mean # Raised
               /\ mean.den > 0
               /\ mean.num * k = mean.den * SumOver(toolData, i - k + 1, i)
        /\ toolResult.items[1] = Fraction(toolData[1], 1)

\* a window of two over four prices: a partial window, then full ones, with a
\* mean that is no integer
C12_Witness ==
    /\ toolPc = "returned"
    /\ toolData = <<1, 2, 2, 0>>
    /\ toolWindow = 2
    /\ toolResult = List(<<Fraction(1, 1), Fraction(3, 2), Fraction(2, 1), Fraction(1, 1)>>)

(***************************** claim C13 ************************************)
\* the prices of a symbol do not fall up to index i (from 1): every loss up to
\* there is zero, which is when the smoothed average loss at i is exactly zero
NoLossUpTo(prices, i) == \A j \in 1..(i - 1) : prices[j] <= prices[j + 1]
StrictlyIncreasing(prices) == \A j \in 1..(Len(prices) - 1) : prices[j] < prices[j + 1]

\* the RSI series analyze_rsi plotted for the n-th symbol, and its summary entry
PlottedRsi(n) == toolResult.images[1].figure.series_map[n][2]
RsiEntry(n) == toolResult.summary.parts[n]

\* C13: _compute_rsi never divides by zero: where the smoothed average loss is
\* exactly zero the RSI is 100, so for a strictly increasing series of length
\* >= 2 every RSI value from index 1 on is 100 and analyze_rsi calls the symbol
\* overbought.
C13_RsiZeroLossIsHundred ==
    (toolPc # "input") =>
        /\ toolPc = "returned"
        /\ ~IsEmpty(toolData) =>
            \A n \in DOMAIN toolData.tickers :
                LET prices == toolData.series[toolData.tickers[n]]
                IN /\ \A i \in 2..Len(prices) :
                        NoLossUpTo(prices, i) => PlottedRsi(n)[i] = FromInt(100)
                   /\ (Len(prices) >= 2 /\ StrictlyIncreasing(prices)) =>
                        /\ \A i \in 2..Len(prices) : PlottedRsi(n)[i] = FromInt(100)
                        /\ RsiEntry(n).state = "overbought"

\* AAA rises on every date and is overbought at RSI 100.0
C13_Witness ==
    /\ toolPc = "returned"
    /\ toolData.tickers = <<"AAA">>
    /\ toolData.series["AAA"] = <<0, 1, 2>>
    /\ PlottedRsi(1) = <<FromInt(50), FromInt(100), FromInt(100)>>
    /\ RsiEntry(1) = [ticker |-> "AAA", state |-> "overbought",
                      rsi |-> [k |-> "fixed", digits |-> 1, units |-> 1000]]

(***************************** claims C14-C17 *******************************)
\* the spread of the symbols numbered a and b of the matrix given to the tool,
\* and whether it is constant: its population standard deviation is zero
SpreadAt(a, b, i) ==
    toolData.series[toolData.tickers[a]][i] - toolData.series[toolData.tickers[b]][i]
FlatSpread(a, b) ==
    \A i, j \in DOMAIN toolData.dates : SpreadAt(a, b, i) = SpreadAt(a, b, j)

\* analyze_zscore returned the result with the heatmap and the line chart
Charted == toolPc = "returned" /\ Len(toolResult.images) = 2
HeatmapEntry(a, b) == toolResult.images[1].figure.matrix[a][b]
ChartedSeries == toolResult.images[2].figure.series_map[1]

\* C14: on a matrix with fewer than two symbols or with no dates analyze_zscore
\* returns, without raising, the result named zscore that says the analysis
\* requires at least two tickers, with no images.
C14_TooFewTickersResult ==
    (toolPc # "input" /\ (Len(toolData.tickers) < 2 \/ toolData.dates = <<>>)) =>
        /\ toolPc = "returned"
        /\ toolResult.name = <<"z", "s", "c", "o", "r", "e">>
        /\ toolResult.summary = Text("Z-score analysis requires at least two tickers.")
        /\ toolResult.images = <<>>

\* one symbol over three dates
C14_Witness ==
    /\ toolPc = "returned"
    /\ toolData.tickers = <<"AAA">>
    /\ Len(toolData.dates) = 3
    /\ toolResult = ToolResult(<<"z", "s", "c", "o", "r", "e">>,
                        Text("Z-score analysis requires at least two tickers."), <<>>)

\* C15: the pairwise matrix is antisymmetric: for distinct symbols a and b with
\* a spread that varies, entry (a, b) is the negation of entry (b, a); every
\* diagonal entry and both entries of a skipped pair are 0.
C15_MatrixAntisymmetric ==
    Charted =>
        \A a, b \in DOMAIN toolData.tickers :
            /\ (a # b /\ ~FlatSpread(a, b)) => HeatmapEntry(a, b) = Neg(HeatmapEntry(b, a))
            /\ (a = b \/ FlatSpread(a, b)) => HeatmapEntry(a, b) = ZeroScore

\* three symbols: AAA and BBB move together, CCC ends above both
C15_Witness ==
    /\ Charted
    /\ Len(toolData.tickers) = 3
    /\ FlatSpread(1, 2)
    /\ HeatmapEntry(1, 3).sign = -1
    /\ HeatmapEntry(3, 1).sign = 1
    /\ HeatmapEntry(2, 1) = ZeroScore

\* C16: a pair whose spread has zero population standard deviation is skipped:
\* nothing divides by zero, no score is recorded for the pair, and when every
\* pair is skipped the result is the unable-to-compute one, with no images.
C16_FlatPairsSkipped ==
    (toolPc # "input" /\ Len(toolData.tickers) >= 2 /\ toolData.dates # <<>>) =>
        /\ toolPc = "returned"
        /\ toolResult.name = <<"z", "s", "c", "o", "r", "e">>
        /\ IF \A a, b \in DOMAIN toolData.tickers : FlatSpread(a, b)
           THEN /\ toolResult.summary =
                       Text("Unable to compute z-scores for the provided data.")
                /\ toolResult.images = <<>>
           ELSE /\ Charted
                /\ \A a, b \in DOMAIN toolData.tickers :
                      FlatSpread(a, b) =>
                        /\ HeatmapEntry(a, b) = ZeroScore
                        /\ <<toolResult.summary.left, toolResult.summary.right>>
                              # <<toolData.tickers[a], toolData.tickers[b]>>
                        /\ ChartedSeries[1]
                              # <<toolData.tickers[a], "-", toolData.tickers[b]>>

\* three symbols moving together over three dates: every pair is skipped
C16_Witness ==
    /\ toolPc = "returned"
    /\ Len(toolData.tickers) = 3
    /\ Len(toolData.dates) = 3
    /\ toolData.series["AAA"] = <<0, 1, 0>>
    /\ \A a, b \in DOMAIN toolData.tickers : FlatSpread(a, b)
    /\ toolResult = ToolResult(<<"z", "s", "c", "o", "r", "e">>,
                        Text("Unable to compute z-scores for the provided data."), <<>>)

\* C17: the pair named in the summary and charted is a pair, not skipped, whose
\* final z-score no other pair exceeds in absolute value, and the z-score
\* printed is that pair's final z-score; for the two symbols AAA rising and BBB
\* falling the pair is AAA vs BBB.
C17_MostExtremePairNamed ==
    /\ Charted =>
        \E a, b \in DOMAIN toolData.tickers :
            /\ a < b
            /\ ~FlatSpread(a, b)
            /\ toolResult.summary.left = toolData.tickers[a]
            /\ toolResult.summary.right = toolData.tickers[b]
            /\ \A c, d \in DOMAIN toolData.tickers :
                (c < d /\ ~FlatSpread(c, d)) =>
                    ~AbsLess(HeatmapEntry(a, b), HeatmapEntry(c, d))
            /\ toolResult.summary.z = FormatScore(HeatmapEntry(a, b))
            /\ ChartedSeries[1] = <<toolData.tickers[a], "-", toolData.tickers[b]>>
            /\ Len(ChartedSeries[2]) = Len(toolData.dates)
            /\ Last(ChartedSeries[2]) = HeatmapEntry(a, b)
    /\ (/\ toolPc # "input"
        /\ toolData.tickers = <<"AAA", "BBB">>
        /\ Len(toolData.dates) >= 2
        /\ StrictlyIncreasing(toolData.series["AAA"])
        /\ StrictlyIncreasing([i \in DOMAIN toolData.dates |-> -toolData.series["BBB"][i]]))
       => (Charted /\ toolResult.summary.left = "AAA" /\ toolResult.summary.right = "BBB")

\* three pairs with final scores of different sizes: the second pair, AAA vs
\* CCC, is the largest and negative, and is the one named
C17_Witness ==
    /\ Charted
    /\ Len(toolData.tickers) = 3
    /\ toolResult.summary.left = "AAA"
    /\ toolResult.summary.right = "CCC"
    /\ toolResult.summary.z.sign = -1
    /\ HeatmapEntry(1, 2).sign = 1
    /\ AbsLess(HeatmapEntry(1, 2), HeatmapEntry(1, 3))
    /\ AbsLess(HeatmapEntry(2, 3), HeatmapEntry(1, 3))

(***************************** claim C20 ************************************)
\* the registered tools the given plan names, in plan order; the tools that are
\* to run: those, or the whole registry when there is none or no plan
IsRegisteredName(name) == InSeq(name, ToolMap)
NamedTools == IF plan = NoneVal THEN <<>> ELSE SelectSeq(plan.tools, IsRegisteredName)
ToolsToRun == IF NamedTools = <<>> THEN ToolMap ELSE NamedTools

\* C20: run_analysis invokes exactly the tools the plan names, each once and in
\* plan order, and the keys of tool_summaries and of tool_images are exactly
\* those names; with no plan, or a plan naming no registered tool, the whole
\* registry zscore, rsi, sma is run.
C20_PlanToolsRunInOrder ==
    (servePc # "input") =>
        /\ servePc = "returned"
        /\ calls = [i \in DOMAIN ToolsToRun |-> ToolCall(ToolsToRun[i])]
        /\ Range(DictKeys(agentResult.tool_summaries)) = Range(ToolsToRun)
        /\ Range(DictKeys(agentResult.tool_images)) = Range(ToolsToRun)
        /\ Len(agentResult.tool_summaries) = Len(ToolsToRun)
        /\ Len(agentResult.tool_images) = Len(ToolsToRun)

\* a plan naming sma, then a name the registry lacks, then zscore: sma runs
\* first, zscore second, rsi not at all
C20_Witness ==
    /\ servePc = "returned"
    /\ plan # NoneVal
    /\ plan.tools = <<ToolMap[3], <<"m", "a", "c", "d">>, ToolMap[1]>>
    /\ calls = <<ToolCall(ToolMap[3]), ToolCall(ToolMap[1])>>
    /\ DictKeys(agentResult.tool_summaries) = <<ToolMap[3], ToolMap[1]>>
    /\ DictKeys(agentResult.tool_images) = <<ToolMap[3], ToolMap[1]>>

(***************************** claims C18-C19 *******************************)
\* the endpoint has answered: an HTTPException, another exception, a response
Finished == servePc \in {"failed", "raised", "returned"}

\* both dates of the form were accepted
DatesAccepted ==
    /\ FormDate(form.start_date, "start_date").k # "http_exception"
    /\ FormDate(form.end_date, "end_date").k # "http_exception"

\* the tickers the query comes to: those of the plan, and those of the
\* heuristic plan where the planner's answer made interpret_query raise
QueryTickers == IF plan # NoneVal THEN plan.tickers ELSE heuristicPlan.tickers

\* the tickers of the request, else those of the query
RequestedTickers ==
    IF ParseTickers(form.tickers) # NoneVal THEN ParseTickers(form.tickers)
    ELSE QueryTickers

\* the records the uploaded file gives
UploadRecords ==
    IF HasUpload(upload)
    THEN ParseUploadedPrices(upload.table, upload.filename, RequestedTickers)
    ELSE <<>>

Ran(fn) == \E i \in DOMAIN calls : calls[i].fn = fn

NoUsableInputFailure ==
    /\ servePc = "failed"
    /\ response.status_code = 400
    /\ response.detail = Text("Provide either tickers or an uploaded price file")

\* C18: a request with no tickers of its own, whose query names no ticker and
\* whose upload gives no record, ends in the no-usable-input failure (status
\* 400), and neither clean_stock_data nor any tool has run.
C18_NoUsableInputIs400 ==
    (/\ Finished
     /\ DatesAccepted
     /\ heuristicPlan # NoneVal
     /\ RequestedTickers = <<>>
     /\ UploadRecords = <<>>)
    => /\ NoUsableInputFailure
       /\ ~Ran("clean_stock_data")
       /\ ~Ran("tool")

\* C19: a planned request that has tickers or records completes with a
\* response, also when the market data or the aligned matrix is empty; only
\* the request with no usable input ends in a failure.
C19_InsufficientDataCompletes ==
    (/\ Finished
     /\ DatesAccepted
     /\ plan # NoneVal)
    => /\ NoUsableInputFailure => RequestedTickers = <<>> /\ UploadRecords = <<>>
       /\ RequestedTickers # <<>> \/ UploadRecords # <<>>
              => servePc = "returned" /\ response.k = "response"

(***************************** claim C21 ************************************)
\* the summaries of the tools called, in the order of the calls, joined as
\* '<TOOL>: <summary>'
SummaryOf(name) ==
    LET at == CHOOSE i \in DOMAIN agentResult.tool_summaries :
                  agentResult.tool_summaries[i][1] = name
    IN agentResult.tool_summaries[at][2]
JoinedNotes ==
    Join(" ", [i \in DOMAIN calls |->
                  <<UpperStr(calls[i].name), ": ", SummaryOf(calls[i].name)>>])
NoInsights == Text("No insights generated. (LLM unavailable)")

\* the summary without the assisted service
FallbackSummary ==
    IF agentResult.tool_summaries = <<>> THEN NoInsights ELSE JoinedNotes

\* C21 as stated: the summary of run_analysis is the assisted prose verbatim
\* when the call gives a non-empty text, else the join of the tool summaries
\* in execution order, else the no-insights sentinel; the assisted service
\* never makes run_analysis raise.
C21_SummaryIsProseVerbatim ==
    servePc # "input" =>
        /\ servePc = "returned"
        /\ agentResult.summary =
               IF commentary.k = "prose" /\ commentary.text # <<>>
               THEN Prose(commentary.text)
               ELSE FallbackSummary

\* C21 amended: the summary is the assisted prose stripped of surrounding
\* blanks when what is left is not empty; else the join, else the sentinel;
\* the assisted service never makes run_analysis raise.
C21_SummaryIsStrippedProse ==
    servePc # "input" =>
        /\ servePc = "returned"
        /\ agentResult.summary =
               IF commentary.k = "prose" /\ Strip(commentary.text) # <<>>
               THEN Prose(Strip(commentary.text))
               ELSE FallbackSummary

C21_Witness ==
    /\ servePc = "returned"
    /\ commentary = Prose(<<" ", "o", "k", " ">>)
    /\ agentResult.summary = Prose(<<"o", "k">>)
    /\ Len(calls) >= 2

(***************************** claim C22 ************************************)
FetchCalls == SelectSeq(calls, LAMBDA c : c.fn = "load_market_data")

\* the end of the fetch: the end date of the request, else of the plan, else
\* today
FetchEnd ==
    IF FormDate(form.end_date, "end_date") # NoneVal
    THEN FormDate(form.end_date, "end_date")
    ELSE IF plan.end_date # NoneVal THEN plan.end_date
    ELSE clock

\* the same day of the month a year before, the last day of that month when
\* the month is shorter
YearBefore(date) ==
    YMD(date.y - 1, date.m,
        IF date.d <= DaysInMonth(date.y - 1, date.m) THEN date.d
        ELSE DaysInMonth(date.y - 1, date.m))

\* the start of the fetch: the start date of the request, else of the plan,
\* else twelve months before the end
FetchStart ==
    IF FormDate(form.start_date, "start_date") # NoneVal
    THEN FormDate(form.start_date, "start_date")
    ELSE IF plan.start_date # NoneVal THEN plan.start_date
    ELSE YearBefore(FetchEnd)

\* C22: a request whose upload gives no record and that has tickers fetches
\* market data exactly once: for the request's tickers, else the plan's, up to
\* the request's end date, else the plan's, else today, from the request's
\* start date, else the plan's, else twelve months before that end. The query
\* 'AAPL past six months sma' on 2024-07-01 fetches AAPL from 2024-01-01 to
\* 2024-07-01.
C22_FetchOnceForDerivedTickers ==
    (/\ Finished
     /\ DatesAccepted
     /\ heuristicPlan # NoneVal
     /\ UploadRecords = <<>>
     /\ RequestedTickers # <<>>)
    => /\ plan # NoneVal
       /\ FetchCalls = <<MarketCall(RequestedTickers, FetchStart, FetchEnd)>>
       /\ (request = PeriodQuery /\ answer = NoClient)
              => FetchCalls = <<MarketCall(<<<<"A", "A", "P", "L">>>>,
                                           YMD(2024, 1, 1), YMD(2024, 7, 1))>>

(***************************** claim C23 ************************************)
\* the uploaded file has a header without a ticker column, and the rows of
\* it that carry a date and a close
NoTickerColumn ==
    /\ HasUpload(upload)
    /\ upload.table # <<>>
    /\ \A i \in DOMAIN upload.table[1] :
           upload.table[1][i] \notin {Str("Ticker"), Str("ticker"), Str("Symbol"),
                                      Str("symbol")}
PricedRows ==
    SelectSeq(SubSeq(upload.table, 2, Len(upload.table)),
              LAMBDA row : row[1] # Str("") /\ row[2] # Str(""))

\* the symbol such a row is given: the first ticker of the request, else of
\* the plan, else the stem AAA of the file name aaa.csv
FallbackWord ==
    IF RequestedTickers # <<>> THEN Word(RequestedTickers[1]) ELSE "AAA"

\* C23: a file whose rows carry a date and a close but no ticker is used:
\* each such row is a record under the first fallback ticker, else under the
\* stem of the file name, and the request completes with the summary of every
\* tool called and at least one image.
C23_TickerlessUploadIsUsed ==
    (/\ Finished
     /\ DatesAccepted
     /\ heuristicPlan # NoneVal
     /\ NoTickerColumn
     /\ PricedRows # <<>>)
    => /\ records = [i \in DOMAIN PricedRows |->
                        Record(PricedRows[i][1], Str(FallbackWord), PricedRows[i][2])]
       /\ servePc = "returned"
       /\ \A i \in DOMAIN calls :
              calls[i].fn = "tool" =>
                  \E j \in DOMAIN response.tool_summaries :
                      response.tool_summaries[j][1] = calls[i].name
       /\ \E i \in DOMAIN calls : calls[i].fn = "tool"
       /\ \E j \in DOMAIN response.images : response.images[j][2] # <<>>

(***************************** claim C24 ************************************)
\* the phrases that stand for a tool
PhraseAliases ==
    {<<<<"s", "m", "a">>, <<"m", "o", "v", "i", "n", "g", " ", "a", "v", "e", "r", "a", "g", "e">>>>,
     <<<<"r", "s", "i">>, <<"r", "e", "l", "a", "t", "i", "v", "e", " ", "s", "t", "r", "e", "n", "g", "t", "h">>>>,
     <<<<"z", "s", "c", "o", "r", "e">>, <<"z", "-", "s", "c", "o", "r", "e">>>>,
     <<<<"z", "s", "c", "o", "r", "e">>, <<"z", " ", "s", "c", "o", "r", "e">>>>}

\* the registry names in the lower-cased request, and the tools an alias of
\* which is in it
NamedInRequest == {name \in Range(ToolMap) : Contains(LowerStr(request), name)}
AliasedInRequest == {a[1] : a \in {b \in PhraseAliases : Contains(LowerStr(request), b[2])}}

HeuristicPlanMade == planPc # "typing" /\ heuristicPlan # NoneVal

\* C24: the tools of the heuristic plan are the registry names that occur in
\* the lower-cased query; if there is none, the tools an alias of which
\* occurs; if there is none either, the whole registry; they are never empty.
C24_ToolSelectionIsStaged ==
    HeuristicPlanMade =>
        /\ Range(heuristicPlan.tools) =
               IF NamedInRequest # {} THEN NamedInRequest
               ELSE IF AliasedInRequest # {} THEN AliasedInRequest
               ELSE Range(ToolMap)
        /\ heuristicPlan.tools # <<>>

C24_Witness ==
    /\ HeuristicPlanMade
    /\ NamedInRequest = {}
    /\ heuristicPlan.tools = <<<<"z", "s", "c", "o", "r", "e">>>>

(***************************** claim C25 ************************************)
\* a whole-word token of the request: capitals only, one to five of them, no
\* word character before or after, spelling no tool name
IsTickerToken(i, j) ==
    /\ j - i + 1 \in 1..5
    /\ \A k \in i..j : IsUpper(request[k])
    /\ i = 1 \/ ~IsWordChar(request[i - 1])
    /\ j = Len(request) \/ ~IsWordChar(request[j + 1])
    /\ ~InSeq(LowerStr(SubSeq(request, i, j)), ToolMap)
TickerTokens ==
    UNION {{SubSeq(request, i, j) : j \in {e \in i..Len(request) : IsTickerToken(i, e)}} :
              i \in 1..Len(request)}
FirstSeen(word) ==
    CHOOSE i \in 1..Len(request) :
        /\ \E j \in i..Len(request) : IsTickerToken(i, j) /\ SubSeq(request, i, j) = word
        /\ \A h \in 1..(i - 1) :
               ~\E j \in h..Len(request) : IsTickerToken(h, j) /\ SubSeq(request, h, j) = word
\* the places of the keyword table whose keyword occurs in the lower-cased
\* request
KeywordPlaces ==
    {n \in 1..Len(KeywordTickerMap) : Contains(LowerStr(request), KeywordTickerMap[n].keyword)}
KeywordSymbols == {KeywordTickerMap[n].symbol : n \in KeywordPlaces}
FirstPlace(symbol) ==
    CHOOSE n \in KeywordPlaces :
        /\ KeywordTickerMap[n].symbol = symbol
        /\ \A m \in KeywordPlaces : KeywordTickerMap[m].symbol = symbol => n <= m
\* a comes before b in the list the claim describes
ListedBefore(a, b) ==
    IF a \in TickerTokens
    THEN b \in TickerTokens => FirstSeen(a) < FirstSeen(b)
    ELSE b \notin TickerTokens /\ FirstPlace(a) < FirstPlace(b)

\* C25: the tickers of the heuristic plan are the whole-word tokens of one to
\* five capitals that spell no tool name, in the order they are first seen,
\* followed by the symbols of the table's keywords that occur in the
\* lower-cased request, each ticker listed once; for
\* 'AAPL past six months sma' they are exactly AAPL
C25_TickersAreTokensThenKeywordSymbols ==
    HeuristicPlanMade =>
        /\ Range(heuristicPlan.tickers) = TickerTokens \cup KeywordSymbols
        /\ \A a, b \in 1..Len(heuristicPlan.tickers) :
               a < b => /\ heuristicPlan.tickers[a] # heuristicPlan.tickers[b]
                        /\ ListedBefore(heuristicPlan.tickers[a], heuristicPlan.tickers[b])
        /\ request = <<"A", "A", "P", "L", " ", "p", "a", "s", "t", " ", "s", "i", "x", " ",
                       "m", "o", "n", "t", "h", "s", " ", "s", "m", "a">>
               => heuristicPlan.tickers = <<<<"A", "A", "P", "L">>>>

\* a request naming a tool in capitals, a ticker and a company of another
\* ticker: the ticker first, the company's symbol after it, the tool left out
C25_Witness ==
    /\ HeuristicPlanMade
    /\ request = <<"a", "p", "p", "l", "e", " ", "T", "S", "L", "A">>
    /\ heuristicPlan.tickers = <<<<"T", "S", "L", "A">>, <<"A", "A", "P", "L">>>>

(***************************** claim C26 ************************************)
TableValue(c) == ChineseDigitMap[c]
InTable(c) == c \in DOMAIN ChineseDigitMap
HasTen == \E i \in 1..Len(token) : token[i] = "#shi"
FirstTen == CHOOSE i \in 1..Len(token) : token[i] = "#shi" /\ \A j \in 1..(i - 1) : token[j] # "#shi"
\* a part beside the ten: nothing, or one character of the table
PartValue(part, empty) ==
    IF part = <<>> THEN empty ELSE TableValue(part[1])
IsPart(part) == part = <<>> \/ (Len(part) = 1 /\ InTable(part[1]))
RECURSIVE TenTo(_)
TenTo(k) == IF k = 0 THEN 1 ELSE 10 * TenTo(k - 1)
\* the decimal value of the token's characters, the first the most significant
PositionalValue ==
    Sum([i \in 1..Len(token) |-> TableValue(token[i]) * TenTo(Len(token) - i)])
\* the numeral of n in 1..99 as it is written
ChineseDigits == <<"#yi", "#er", "#san", "#si", "#wu", "#liu", "#qi7", "#ba", "#jiu">>
StandardNumeral(n) ==
    IF n < 10 THEN <<ChineseDigits[n]>>
    ELSE IF n = 10 THEN <<"#shi">>
    ELSE IF n < 20 THEN <<"#shi", ChineseDigits[n - 10]>>
    ELSE IF n % 10 = 0 THEN <<ChineseDigits[n \div 10], "#shi">>
    ELSE <<ChineseDigits[n \div 10], "#shi", ChineseDigits[n % 10]>>

\* C26: _parse_chinese_numeral composes in base ten: the ten alone is 10; a
\* token of two characters ending in the ten is ten times its leading digit;
\* a token with the ten elsewhere is ten times its prefix digit (1 for no
\* prefix) plus its suffix digit (0 for no suffix); a token without the ten
\* is the positional decimal value of its digits; a token with a character
\* outside the digit table is unparseable; every standard numeral of 1..99
\* parses to its value
C26_NumeralIsBaseTenComposition ==
    numeralPc = "returned" =>
        /\ token = <<"#shi">> => numeral = Num(10)
        /\ Len(token) = 2 /\ token[2] = "#shi" /\ InTable(token[1])
               => numeral = Num(TableValue(token[1]) * 10)
        /\ (/\ HasTen
            /\ ~(Len(token) <= 2 /\ token[Len(token)] = "#shi")
            /\ IsPart(SubSeq(token, 1, FirstTen - 1))
            /\ IsPart(SubSeq(token, FirstTen + 1, Len(token))))
               => numeral = Num(PartValue(SubSeq(token, 1, FirstTen - 1), 1) * 10
                                + PartValue(SubSeq(token, FirstTen + 1, Len(token)), 0))
        /\ ~HasTen /\ (\A i \in 1..Len(token) : InTable(token[i]))
               => numeral = Num(PositionalValue)
        /\ (\E i \in 1..Len(token) : ~InTable(token[i])) => numeral = NoneVal
        /\ \A n \in 1..99 : token = StandardNumeral(n) => numeral = Num(n)

\* fifteen, written with the ten first
C26_Witness ==
    /\ numeralPc = "returned"
    /\ token = <<"#shi", "#wu">>
    /\ numeral = Num(15)

(***************************** claim C27 ************************************)
\* interpret_query returned and the planner's reply was an object
AssistedPlanMade == planPc = "returned" /\ llmPlan # NoneVal
ExplicitStart == ParseDateValue(answer.payload.start_date)
ExplicitEnd == ParseDateValue(answer.payload.end_date)
\* the date a lookback is measured from
LookbackReference == IF ExplicitEnd # NoneVal THEN ExplicitEnd ELSE clock
\* the lookbacks of the replies that name a duration, and that duration taken
\* from a date
ThreeMonths == Lookback(Num(3), Str(<<"m", "o", "n", "t", "h">>))
TwoWeeks == Str(<<"t", "w", "o", " ", "w", "e", "e", "k", "s">>)
LookbackResolves == answer.payload.lookback \in {ThreeMonths, TwoWeeks}
LookbackBefore(date) ==
    IF answer.payload.lookback = ThreeMonths
    THEN (IF date.m > 3
          THEN YMD(date.y, date.m - 3, Min(date.d, DaysInMonth(date.y, date.m - 3)))
          ELSE YMD(date.y - 1, date.m + 9, Min(date.d, DaysInMonth(date.y - 1, date.m + 9))))
    ELSE FromOrdinal(ToOrdinal(date) - 14)

\* C27: in the assisted plan an explicit start date that parses is the start
\* and the lookback is ignored; without one a lookback that resolves gives
\* the start, its duration before the explicit end date or, without an
\* explicit end date, before today, and that reference date is the plan's end
\* date; a lookback that is absent or does not resolve leaves the start
\* unspecified and the explicit end date as it is
C27_LookbackOnlyWithoutStart ==
    AssistedPlanMade =>
        /\ ExplicitStart # NoneVal
               => llmPlan.start_date = ExplicitStart /\ llmPlan.end_date = ExplicitEnd
        /\ ExplicitStart = NoneVal /\ LookbackResolves
               => /\ llmPlan.start_date = LookbackBefore(LookbackReference)
                  /\ llmPlan.end_date = LookbackReference
        /\ ExplicitStart = NoneVal /\ ~LookbackResolves
               => llmPlan.start_date = NoneVal /\ llmPlan.end_date = ExplicitEnd

\* a reply with a start date that does not parse, an end date and a lookback
\* of three months: the window ends on the end date of the reply
C27_Witness ==
    /\ AssistedPlanMade
    /\ answer.payload.start_date = Str(<<"g", "a", "r", "b", "a", "g", "e">>)
    /\ answer.payload.lookback = ThreeMonths
    /\ llmPlan.start_date = YMD(2024, 3, 30)
    /\ llmPlan.end_date = YMD(2024, 6, 30)

(***************************** claim C28 ************************************)
\* the places of the calls of fn in the call log
CallsOf(fn) == {i \in DOMAIN calls : calls[i].fn = fn}

\* C28: a request whose uploaded file gives at least one record never calls
\* load_market_data, whatever tickers the form or the query names; where
\* load_market_data is called the upload gave no record, and the file, if one
\* was sent, was parsed before the call; a request turned away for its dates
\* reads no file and fetches nothing
C28_UploadBeforeMarketData ==
    servePc # "input" =>
        IF heuristicPlan = NoneVal
        THEN ~Ran("parse_uploaded_prices") /\ ~Ran("load_market_data")
        ELSE /\ UploadRecords # <<>> => ~Ran("load_market_data")
             /\ Ran("load_market_data")
                    => /\ UploadRecords = <<>>
                       /\ HasUpload(upload)
                              => \E u \in CallsOf("parse_uploaded_prices") :
                                     \A f \in CallsOf("load_market_data") : u < f

\* a request with tickers on the form and a file that gives a record: the
\* tools ran on the file's records and nothing was fetched
C28_Witness ==
    /\ servePc = "returned"
    /\ ParseTickers(form.tickers) # NoneVal
    /\ UploadRecords # <<>>
    /\ Ran("parse_uploaded_prices")
    /\ Ran("tool")
    /\ ~Ran("load_market_data")

(***************************** claim C29 ************************************)
ObservedDates == {normalized[i].date : i \in DOMAIN normalized}
ObservedSymbols == {normalized[i].ticker : i \in DOMAIN normalized}
\* the first date symbol s is observed on
FirstObservation(s) ==
    CHOOSE d \in ObservedDates :
        /\ \E i \in DOMAIN normalized : normalized[i].ticker = s /\ normalized[i].date = d
        /\ \A i \in DOMAIN normalized : normalized[i].ticker = s => d <= normalized[i].date
\* the latest of the symbols' first observations
LatestFirstObservation ==
    CHOOSE d \in {FirstObservation(s) : s \in ObservedSymbols} :
        \A s \in ObservedSymbols : FirstObservation(s) <= d
LastObserved == CHOOSE d \in ObservedDates : \A e \in ObservedDates : e <= d

\* C29: when at least one record is normalized the matrix clean_stock_data
\* returns is not empty: its dates are, in ascending order, the observed dates
\* from the latest of the symbols' first observations onward, and the last
\* observed date is the last of them
C29_RetainedDatesAreASuffix ==
    Returned /\ normalized # <<>> =>
        /\ matrix.dates # <<>>
        /\ Range(matrix.dates) = {d \in ObservedDates : d >= LatestFirstObservation}
        /\ \A i, j \in 1..Len(matrix.dates) : i < j => matrix.dates[i] < matrix.dates[j]
        /\ matrix.dates[Len(matrix.dates)] = LastObserved

\* three observed dates and two symbols, the second first observed on the
\* second date and not on the third: the first date is dropped, the other two
\* are retained
C29_Witness ==
    /\ cleanPc = "done"
    /\ Cardinality(ObservedDates) = 3
    /\ Cardinality(ObservedSymbols) = 2
    /\ Len(matrix.dates) = 2

(***************************** claim C30 ************************************)
\* interpret_query returned a plan that carries both dates
PlanHasBothDates ==
    planPc = "returned" /\ plan.start_date # NoneVal /\ plan.end_date # NoneVal
PlanDatesOrdered == ToOrdinal(plan.start_date) < ToOrdinal(plan.end_date)

\* C30 as stated: every plan interpret_query returns with both a start date
\* and an end date has the start date strictly before the end date, whatever
\* the request and the planner's reply
C30_PlanDatesOrdered == PlanHasBothDates => PlanDatesOrdered

\* the dates of the plan are resolved ones: there is no assisted plan, or the
\* reply gives no explicit start date that parses and its explicit end date,
\* if it gives one, comes with a start date its lookback resolved
DatesAreResolved ==
    \/ llmPlan = NoneVal
    \/ /\ ExplicitStart = NoneVal
       /\ ExplicitEnd # NoneVal => llmPlan.start_date # NoneVal

\* C30 as amended: a plan interpret_query returns with both dates has the
\* start date strictly before the end date when the dates are resolved from a
\* period of the request or from the reply's lookback; the explicit dates of a
\* reply are taken as they are
C30_ResolvedDatesOrdered == PlanHasBothDates /\ DatesAreResolved => PlanDatesOrdered

\* a request naming a period and a reply with an end date and a lookback: both
\* dates of the merged plan are the assisted ones
C30_Witness ==
    /\ PlanHasBothDates
    /\ llmPlan # NoneVal
    /\ heuristicPlan.start_date = YMD(2024, 1, 1)
    /\ ExplicitStart = NoneVal
    /\ ExplicitEnd = YMD(2024, 1, 1)
    /\ plan.start_date = YMD(2023, 10, 1)
    /\ plan.end_date = YMD(2024, 1, 1)

====
